---- MODULE Spec2Model ----
(***************************************************************************)
(* A model of the action execution engine of backend.py (class             *)
(* AIAssistant): session initialisation, the plan parser, the per-step     *)
(* dispatcher with its command rewrites, the directory guard and the       *)
(* sequential plan loop.  Commands, paths and file contents are strings;   *)
(* the Python string and os.path operations the code uses are defined as   *)
(* operators that compute what the library functions compute.              *)
(*                                                                         *)
(* A value that an operator needs more than once is passed to a helper     *)
(* operator as an argument, so that it is computed once.                   *)
(***************************************************************************)
EXTENDS Integers, Sequences, FiniteSets, TLC

(***************************************************************************)
(* Python str operations.                                                  *)
(***************************************************************************)

\* s.startswith(p)
StartsWith(s, p) == Len(p) <= Len(s) /\ SubSeq(s, 1, Len(p)) = p

\* s.endswith(p)
EndsWith(s, p) == Len(p) <= Len(s) /\ SubSeq(s, Len(s) - Len(p) + 1, Len(s)) = p

\* the positions at which p occurs in s
Occurrences(s, p) == {i \in 1..(Len(s) - Len(p) + 1) : SubSeq(s, i, i + Len(p) - 1) = p}

\* the least element of a set of positions, 0 when it is empty
MinOrZero(I) == IF I = {} THEN 0 ELSE CHOOSE i \in I : \A j \in I : i <= j

\* the greatest element of a set of positions, 0 when it is empty
MaxOrZero(I) == IF I = {} THEN 0 ELSE CHOOSE i \in I : \A j \in I : j <= i

\* s.find(p) + 1: the first position of p in s, 0 when there is none
Find(s, p) == MinOrZero(Occurrences(s, p))

\* s.rfind(p) + 1: the last position of p in s, 0 when there is none
RFind(s, p) == MaxOrZero(Occurrences(s, p))

\* p in s
Contains(s, p) == Occurrences(s, p) # {}

\* s.replace(old, new): every non-overlapping occurrence, left to right
RECURSIVE Replace(_, _, _)
ReplaceAt(s, old, new, i) ==
    IF i = 0 \/ old = ""
    THEN s
    ELSE SubSeq(s, 1, i - 1) \o new \o Replace(SubSeq(s, i + Len(old), Len(s)), old, new)

Replace(s, old, new) == ReplaceAt(s, old, new, Find(s, old))

\* s.split(sep): the pieces between the occurrences of sep, empty pieces kept
RECURSIVE SplitOn(_, _)
SplitAt(s, sep, i) ==
    IF i = 0
    THEN <<s>>
    ELSE <<SubSeq(s, 1, i - 1)>> \o SplitOn(SubSeq(s, i + Len(sep), Len(s)), sep)

SplitOn(s, sep) == SplitAt(s, sep, Find(s, sep))

\* c.isspace() for one character
IsSpace(c) == c \in {" ", "\t", "\n", "\r"}

\* s.lstrip()
RECURSIVE LStrip(_)
LStrip(s) == IF s # "" /\ IsSpace(SubSeq(s, 1, 1)) THEN LStrip(Tail(s)) ELSE s

\* s.rstrip()
RECURSIVE RStrip(_)
RStrip(s) ==
    IF s # "" /\ IsSpace(SubSeq(s, Len(s), Len(s)))
    THEN RStrip(SubSeq(s, 1, Len(s) - 1))
    ELSE s

\* s.strip()
Strip(s) == RStrip(LStrip(s))

\* the characters of s before its first whitespace
RECURSIVE FirstWord(_)
FirstWord(s) ==
    IF s = "" \/ IsSpace(SubSeq(s, 1, 1))
    THEN ""
    ELSE SubSeq(s, 1, 1) \o FirstWord(Tail(s))

\* s.split(): the words between runs of whitespace, no empty words
RECURSIVE Split(_)
SplitRest(t, w) == <<w>> \o Split(SubSeq(t, Len(w) + 1, Len(t)))

SplitWords(t) == IF t = "" THEN <<>> ELSE SplitRest(t, FirstWord(t))

Split(s) == SplitWords(LStrip(s))

\* sep.join(parts)
RECURSIVE Join(_, _)
Join(parts, sep) ==
    IF parts = <<>> THEN ""
    ELSE IF Len(parts) = 1 THEN parts[1]
    ELSE parts[1] \o sep \o Join(Tail(parts), sep)

\* the set of the elements of a sequence
SeqToSet(q) == {q[i] : i \in 1..Len(q)}

(***************************************************************************)
(* os.path operations (posixpath).                                         *)
(***************************************************************************)

\* os.path.isabs
isabs(p) == StartsWith(p, "/")

\* os.path.join(a, b)
join(a, b) ==
    IF isabs(b) THEN b
    ELSE IF a = "" \/ EndsWith(a, "/") THEN a \o b
    ELSE a \o "/" \o b

\* the component stack of posixpath.normpath: "" and "." dropped, ".." pops
RECURSIVE NormComps(_, _, _)
NormComps(comps, stack, rooted) ==
    IF comps = <<>> THEN stack
    ELSE IF Head(comps) = "" \/ Head(comps) = "."
    THEN NormComps(Tail(comps), stack, rooted)
    ELSE IF Head(comps) # ".."
            \/ (~rooted /\ stack = <<>>)
            \/ (stack # <<>> /\ stack[Len(stack)] = "..")
    THEN NormComps(Tail(comps), Append(stack, Head(comps)), rooted)
    ELSE NormComps(Tail(comps), SubSeq(stack, 1, Len(stack) - 1), rooted)

\* the path normpath builds from the component stack
NormResult(rooted, body) ==
    IF rooted THEN "/" \o body
    ELSE IF body = "" THEN "." ELSE body

NormRooted(p, rooted) ==
    NormResult(rooted, Join(NormComps(SplitOn(p, "/"), <<>>, rooted), "/"))

\* os.path.normpath (paths with exactly two leading slashes are not modelled)
normpath(p) == NormRooted(p, isabs(p))

\* os.path.abspath(p) in a process whose current directory is cwd
abspath(p, cwd) == normpath(join(cwd, p))

\* os.path.dirname of a normalised absolute path
DirnameAt(p, i) == IF i <= 1 THEN "/" ELSE SubSeq(p, 1, i - 1)

dirname(p) == DirnameAt(p, RFind(p, "/"))

(***************************************************************************)
(* JSON values of a decoded step.  A field of a step is a string, is       *)
(* absent, is null, or is a non-string value that Python treats as true    *)
(* (a non-zero number, a non-empty list).                                  *)
(***************************************************************************)

Str(s) == [tag |-> "str", s |-> s]
Absent == [tag |-> "absent", s |-> ""]
Null == [tag |-> "null", s |-> ""]
NonStr == [tag |-> "nonstr", s |-> ""]

\* dict.get(field, default) on a decoded step
Get(step, field, default) ==
    IF step[field].tag = "absent" THEN Str(default) ELSE step[field]

\* bool(v)
Truthy(v) == (v.tag = "str" /\ v.s # "") \/ v.tag = "nonstr"

(***************************************************************************)
(* The filesystem the engine acts on.  A world w is the part of the        *)
(* program and operating-system state a step reads and writes:             *)
(*   working_dir  AIAssistant.working_dir                                  *)
(*   cwd          the current directory of the Python process (os.chdir)   *)
(*   dirs         the existing directories                                 *)
(*   files        the existing regular files: path -> [content, x]         *)
(*   termux_open  whether shutil.which('termux-open') finds the opener     *)
(*   procs        the processes started so far: <<[cmd, cwd, mode]>>       *)
(* Symbolic links and paths the kernel resolves differently from           *)
(* normpath are not modelled.                                              *)
(***************************************************************************)

\* directories in which no entry can be created (EACCES on mkdir and open)
ReadOnlyDirs == {"/home/u/ro", "/proc", "/"}

\* directories that exist but cannot be entered (EACCES on chdir)
NoEnterDirs == {"/home/u/locked"}

\* a normalised path names an existing directory or file
ExistsN(w, n) == n \in w.dirs \/ n \in DOMAIN w.files

\* os.path.exists
Exists(w, p) == ExistsN(w, normpath(p))

\* os.path.isdir
IsDir(w, p) == normpath(p) \in w.dirs

\* the ancestors of a normalised absolute path, nearest first, "/" last
RECURSIVE Ancestors(_)
AncestorsFrom(d) == <<d>> \o Ancestors(d)

Ancestors(p) == IF p = "/" THEN <<>> ELSE AncestorsFrom(dirname(p))

\* the nearest ancestor-or-self of a normalised absolute path that is a directory
RECURSIVE NearestDir(_, _)
NearestDir(w, p) == IF p \in w.dirs \/ p = "/" THEN p ELSE NearestDir(w, dirname(p))

\* os.makedirs of the normalised path n below its nearest existing
\* directory base: the directories missing on the way are created
MakeMissing(w, n, base, missing) ==
    IF n \in w.dirs THEN [ok |-> TRUE, dirs |-> w.dirs]
    ELSE IF \E a \in missing : a \in DOMAIN w.files THEN [ok |-> FALSE, dirs |-> w.dirs]
    ELSE IF base \in ReadOnlyDirs THEN [ok |-> FALSE, dirs |-> w.dirs]
    ELSE [ok |-> TRUE, dirs |-> w.dirs \cup missing]

MakeBelow(w, n, base, anc) ==
    MakeMissing(w, n, base, {a \in anc : Len(a) > Len(base)} \cup {n})

MakeDirsN(w, n) == MakeBelow(w, n, NearestDir(w, n), SeqToSet(Ancestors(n)))

\* os.makedirs(path, exist_ok=True): [ok, dirs]; ok = FALSE models the
\* OSError it raises (a file in the way, or no permission to create)
makedirs(w, path) == MakeDirsN(w, normpath(path))

\* the result of check_file_exists for the joined path
CheckPath(w, current_path) ==
    IF Exists(w, current_path)
    THEN [exists |-> TRUE, path |-> current_path]
    ELSE [exists |-> FALSE, path |-> ""]

\* AIAssistant.check_file_exists: [exists, path]
check_file_exists(w, filename) == CheckPath(w, join(w.working_dir, filename))

\* the world after os.chmod(n, 0o755)
Chmod755N(w, n) ==
    IF n \in DOMAIN w.files
    THEN [w EXCEPT !.files = [w.files EXCEPT ![n] = [@ EXCEPT !.x = TRUE]]]
    ELSE w

\* os.chmod(path, 0o755) on an existing path
chmod755(w, path) == Chmod755N(w, normpath(path))

\* open(n, 'w') succeeds: the parent d is a directory, n is no directory,
\* and n exists already or an entry can be created in d
CanOpenIn(w, n, d) ==
    /\ n \notin w.dirs
    /\ d \in w.dirs
    /\ n \in DOMAIN w.files \/ d \notin ReadOnlyDirs

CanOpenN(w, n) == CanOpenIn(w, n, dirname(n))

\* open(filepath, 'w') does not raise
CanOpenForWrite(w, filepath) == CanOpenN(w, normpath(filepath))

\* the files after open(n, 'w') and write(content): a new file has no x bit
WriteFileN(w, n, content) ==
    [p \in DOMAIN w.files \cup {n} |->
        IF p = n
        THEN [content |-> content, x |-> IF n \in DOMAIN w.files THEN w.files[n].x ELSE FALSE]
        ELSE w.files[p]]

\* the world after open(filepath, 'w') and write(content)
WriteFile(w, filepath, content) ==
    [w EXCEPT !.files = WriteFileN(w, normpath(filepath), content)]

\* lines 122-126 of create_file_with_content: the chmod of a script
MarkScript(w1, filename, filepath) ==
    IF EndsWith(filename, ".sh") \/ EndsWith(filename, ".py") \/ ~Contains(filename, ".")
    THEN [w |-> chmod755(w1, filepath), ok |-> TRUE]
    ELSE [w |-> w1, ok |-> TRUE]

\* lines 116-129 of create_file_with_content: open, write, chmod; an
\* exception (OSError from open, TypeError from write) returns False
CreateAt(w, filename, content, filepath) ==
    IF ~CanOpenForWrite(w, filepath) THEN [w |-> w, ok |-> FALSE]
    ELSE IF content.tag # "str" THEN [w |-> WriteFile(w, filepath, ""), ok |-> FALSE]
    ELSE MarkScript(WriteFile(w, filepath, content.s), filename, filepath)

\* AIAssistant.create_file_with_content: [w, ok].  filename and content are
\* JSON values that are true in Python; a filename that is no string raises
\* TypeError in os.path.join, inside the try
create_file_with_content(w, filename, content) ==
    IF filename.tag # "str" THEN [w |-> w, ok |-> FALSE]
    ELSE CreateAt(w, filename.s, content, join(w.working_dir, filename.s))

\* safe_change_directory as it would be if it set working_dir before its
\* checks
ChangeTo_Eager(w, t) ==
    IF ~Exists(w, t) \/ ~IsDir(w, t) \/ t \in NoEnterDirs
    THEN [w |-> [w EXCEPT !.working_dir = t], ok |-> FALSE]
    ELSE [w |-> [w EXCEPT !.cwd = t, !.working_dir = t], ok |-> TRUE]

\* lines 141-158 of safe_change_directory for the normalised target
ChangeTo(w, t) ==
    IF ~Exists(w, t) THEN [w |-> w, ok |-> FALSE]
    ELSE IF ~IsDir(w, t) THEN [w |-> w, ok |-> FALSE]
    ELSE IF t \in NoEnterDirs THEN [w |-> w, ok |-> FALSE]
    ELSE [w |-> [w EXCEPT !.cwd = t, !.working_dir = t], ok |-> TRUE]

\* AIAssistant.safe_change_directory: [w, ok]
safe_change_directory(w, target_dir) ==
    ChangeTo(w, abspath(IF ~isabs(target_dir)
                        THEN join(w.working_dir, target_dir)
                        ELSE target_dir, w.cwd))

\* the math symbols fix_gcc_command looks for in a source file
MathSymbols == {"#include <math.h>", "sin(", "cos(", "sqrt(", "pow("}

\* the words of the command that end with .c, in order
RECURSIVE SelectC(_)
SelectC(words) ==
    IF words = <<>> THEN <<>>
    ELSE IF EndsWith(Head(words), ".c") THEN <<Head(words)>> \o SelectC(Tail(words))
    ELSE SelectC(Tail(words))

\* the loop of fix_gcc_command over c_files: the first file that exists and
\* uses a math symbol rewrites the command and ends the loop
RECURSIVE FixGccLoop(_, _, _)
FixGccFile(w, command, c_files, n) ==
    IF n \in DOMAIN w.files /\ \E m \in MathSymbols : Contains(w.files[n].content, m)
    THEN Replace(command, "gcc ", "gcc -lm ")
    ELSE FixGccLoop(w, command, Tail(c_files))

FixGccLoop(w, command, c_files) ==
    IF c_files = <<>> THEN command
    ELSE FixGccFile(w, command, c_files, normpath(join(w.working_dir, Head(c_files))))

\* fix_gcc_command as it would be if it never rewrote the command
fix_gcc_command_Unchanged(w, command) == command

\* AIAssistant.fix_gcc_command
fix_gcc_command(w, command) ==
    IF ~Contains(command, "-lm")
    THEN FixGccLoop(w, command, SelectC(Split(command)))
    ELSE command

(***************************************************************************)
(* The process runner.  A process is opaque: how it ends is an outcome     *)
(* chosen by the environment.  kind is "exit" (with rc, out, err),         *)
(* "timeout" (subprocess.TimeoutExpired) or "interrupt"                    *)
(* (KeyboardInterrupt while waiting).  The one effect of a process on the  *)
(* filesystem that is modelled is gcc writing its output file.             *)
(***************************************************************************)

ExitOk == [kind |-> "exit", rc |-> 0, out |-> "ok", err |-> ""]
ExitFail == [kind |-> "exit", rc |-> 1, out |-> "", err |-> "error: diagnostic"]
TimedOut == [kind |-> "timeout", rc |-> 0, out |-> "", err |-> ""]
Interrupted == [kind |-> "interrupt", rc |-> 0, out |-> "", err |-> ""]
Outcomes == {ExitOk, ExitFail, TimedOut, Interrupted}

\* the result of running one command:
\*   rc, out, err  the tuple execute_command returns
\*   used          how many process outcomes were consumed
\*   intr          KeyboardInterrupt left the handler
\*   feas          FALSE when an outcome supplied cannot occur
\*   short         TRUE when a process was started and no outcome was
\*                 supplied for it
Res(w, rc, out, err, used, intr, feas) ==
    [w |-> w, rc |-> rc, out |-> out, err |-> err, used |-> used,
     intr |-> intr, feas |-> feas, short |-> FALSE]

\* a process is to be started and its outcome is not among those supplied
Short(w, used) ==
    [w |-> w, rc |-> 1, out |-> "", err |-> "", used |-> used,
     intr |-> FALSE, feas |-> TRUE, short |-> TRUE]

\* the name after -o in a gcc command, a.out when there is none
RECURSIVE OutputName(_)
OutputName(words) ==
    IF Len(words) < 2 THEN "a.out"
    ELSE IF Head(words) = "-o" THEN words[2]
    ELSE OutputName(Tail(words))

\* the command runs the compiler
IsGccWords(words) == words # <<>> /\ Head(words) = "gcc"

\* every source named exists in the working directory
AllExist(w, srcs) == \A i \in 1..Len(srcs) : Exists(w, join(w.working_dir, srcs[i]))

\* a gcc run cannot succeed when one of its .c sources is missing
FeasibleWords(w, o, words) ==
    (IsGccWords(words) /\ o.kind = "exit" /\ o.rc = 0) => AllExist(w, SelectC(words))

\* the executable a successful gcc leaves behind
GccWrites(w1, target) ==
    IF target \in w1.dirs THEN w1
    ELSE [w1 EXCEPT !.files =
             [p \in DOMAIN w1.files \cup {target} |->
                 IF p = target THEN [content |-> "ELF", x |-> TRUE] ELSE w1.files[p]]]

\* the effect of the process on the filesystem
Spawn(w1, o, words) ==
    IF IsGccWords(words) /\ o.kind = "exit" /\ o.rc = 0
    THEN GccWrites(w1, normpath(join(w1.working_dir, OutputName(words))))
    ELSE w1

\* whether the file a ./name command names can be executed when the process
\* is started; TRUE for every other command
RunnableAt(w, n) == n \in DOMAIN w.files /\ w.files[n].x

Runnable(w, words) ==
    IF words # <<>> /\ StartsWith(Head(words), "./")
    THEN RunnableAt(w, normpath(join(w.working_dir, SubSeq(Head(words), 3, Len(Head(words))))))
    ELSE TRUE

\* the process is recorded with the directory it runs in, with whether its
\* program file could be executed when it was started, and with how it ended
Logged(w, cmd, mode, o, words) ==
    [w EXCEPT !.procs = Append(@, [cmd |-> cmd, cwd |-> w.working_dir, mode |-> mode,
                                   runnable |-> Runnable(w, words), o |-> o])]

ProcWords(w, cmd, mode, o, words) ==
    [w |-> Spawn(Logged(w, cmd, mode, o, words), o, words),
     feas |-> FeasibleWords(w, o, words)]

\* subprocess.run(cmd, shell=True, cwd=self.working_dir, ...) ending with
\* outcome o: [w, feas]
Proc(w, cmd, mode, o) == ProcWords(w, cmd, mode, o, Split(cmd))

(***************************************************************************)
(* The command handlers of AIAssistant.                                    *)
(***************************************************************************)

AndFeas(r, f) == [r EXCEPT !.feas = @ /\ f]

RECURSIVE DirOpsLoop(_, _, _, _)

\* lines 271-272: the directory of a mkdir segment was made, or makedirs raised
MkdirDone(w, parts, os, used, m) ==
    IF ~m.ok
    THEN Res(w, 1, "", "Directory operation error", used, FALSE, TRUE)
    ELSE DirOpsLoop([w EXCEPT !.dirs = m.dirs], Tail(parts), os, used)

\* lines 268-271: a mkdir segment naming d0
MkdirPart(w, parts, os, used, d0) ==
    MkdirDone(w, parts, os, used,
              makedirs(w, IF ~isabs(d0) THEN join(w.working_dir, d0) ELSE d0))

\* a cd segment as it would be if the result of safe_change_directory were
\* dropped
CdDone_Stay(w, parts, os, used, dir_name, c) == DirOpsLoop(w, Tail(parts), os, used)

\* lines 275-276: a cd segment after safe_change_directory returned c
CdDone(w, parts, os, used, dir_name, c) ==
    IF ~c.ok
    THEN Res(c.w, 1, "", "Failed to change to directory " \o dir_name, used, FALSE, TRUE)
    ELSE DirOpsLoop(c.w, Tail(parts), os, used)

\* the chain as it would be if it went on after a segment that exited with
\* a status other than 0
OtherDone_GoOn(parts, os, used, o, p) ==
    IF o.kind = "interrupt" THEN Res(p.w, 1, "", "", used + 1, TRUE, p.feas)
    ELSE IF o.kind = "timeout"
    THEN Res(p.w, 1, "", "Directory operation error", used + 1, FALSE, p.feas)
    ELSE AndFeas(DirOpsLoop(p.w, Tail(parts), os, used + 1), p.feas)

\* lines 279-284: any other segment, run as a process that ended with o
OtherDone(parts, os, used, o, p) ==
    IF o.kind = "interrupt" THEN Res(p.w, 1, "", "", used + 1, TRUE, p.feas)
    ELSE IF o.kind = "timeout"
    THEN Res(p.w, 1, "", "Directory operation error", used + 1, FALSE, p.feas)
    ELSE IF o.rc # 0 THEN Res(p.w, o.rc, o.out, o.err, used + 1, FALSE, p.feas)
    ELSE AndFeas(DirOpsLoop(p.w, Tail(parts), os, used + 1), p.feas)

\* lines 265-284: one segment of the chain
DirOpsPart(w, parts, os, used, part) ==
    IF StartsWith(part, "mkdir ")
    THEN MkdirPart(w, parts, os, used,
                   Strip(Replace(Replace(part, "mkdir -p ", ""), "mkdir ", "")))
    ELSE IF StartsWith(part, "cd ")
    THEN CdDone(w, parts, os, used, Strip(Replace(part, "cd ", "")),
                safe_change_directory(w, Strip(Replace(part, "cd ", ""))))
    ELSE IF used >= Len(os) THEN Short(w, used)
    ELSE OtherDone(parts, os, used, os[used + 1], Proc(w, part, "captured", os[used + 1]))

\* the loop of handle_directory_operations over the segments of a chain
DirOpsLoop(w, parts, os, used) ==
    IF parts = <<>>
    THEN Res(w, 0, "Directory operations completed", "", used, FALSE, TRUE)
    ELSE DirOpsPart(w, parts, os, used, Strip(Head(parts)))

\* lines 288-291: a bare cd after safe_change_directory returned c
BareCdDone(w, dir_name, c) ==
    IF c.ok
    THEN Res(c.w, 0, "Changed to " \o c.w.working_dir, "", 0, FALSE, TRUE)
    ELSE Res(c.w, 1, "", "Failed to change to directory " \o dir_name, 0, FALSE, TRUE)

BareCd(w, dir_name) == BareCdDone(w, dir_name, safe_change_directory(w, dir_name))

\* AIAssistant.handle_directory_operations
handle_directory_operations(w, command, os) ==
    IF Contains(command, " && cd ")
    THEN DirOpsLoop(w, SplitOn(command, " && "), os, 0)
    ELSE BareCd(w, Strip(Replace(command, "cd ", "")))

\* the captured branch as it would be with subprocess.run(check=True): a
\* non-zero exit raises CalledProcessError, which the handler's last except
\* clause turns into its own message
CapturedDone_Checked(o, p, msg) ==
    IF o.kind = "interrupt" THEN Res(p.w, 1, "", "", 1, TRUE, p.feas)
    ELSE IF o.kind = "timeout" THEN Res(p.w, 1, "", msg, 1, FALSE, p.feas)
    ELSE IF o.rc # 0
    THEN Res(p.w, 1, "", "Execution error: non-zero exit status", 1, FALSE, p.feas)
    ELSE Res(p.w, o.rc, o.out, o.err, 1, FALSE, p.feas)

\* the captured branch as it would be if no except clause caught
\* TimeoutExpired: the exception leaves the handler as an interrupt does
CapturedDone_Uncaught(o, p, msg) ==
    IF o.kind \in {"interrupt", "timeout"} THEN Res(p.w, 1, "", "", 1, TRUE, p.feas)
    ELSE Res(p.w, o.rc, o.out, o.err, 1, FALSE, p.feas)

\* what a handler returns for a captured process that ended with o, when
\* its except clause turns TimeoutExpired into (1, "", msg)
CapturedDone(o, p, msg) ==
    IF o.kind = "interrupt" THEN Res(p.w, 1, "", "", 1, TRUE, p.feas)
    ELSE IF o.kind = "timeout" THEN Res(p.w, 1, "", msg, 1, FALSE, p.feas)
    ELSE Res(p.w, o.rc, o.out, o.err, 1, FALSE, p.feas)

\* subprocess.run with capture_output=True inside a try
Captured(w, cmd, os, msg) ==
    IF os = <<>> THEN Short(w, 0)
    ELSE CapturedDone(os[1], Proc(w, cmd, "captured", os[1]), msg)

\* the heredoc handler as it would be if it reported the file without
\* opening it
HeredocAt_Unwritten(w, filename, filepath) ==
    Res(w, 0, "Created " \o filename, "", 0, FALSE, TRUE)

\* lines 307-312: the placeholder file of a heredoc
HeredocAt(w, filename, filepath) ==
    IF ~CanOpenForWrite(w, filepath)
    THEN Res(w, 1, "", "Heredoc creation error", 0, FALSE, TRUE)
    ELSE Res(WriteFile(w, filepath, ""), 0, "Created " \o filename, "", 0, FALSE, TRUE)

HeredocFile(w, filename) == HeredocAt(w, filename, join(w.working_dir, filename))

\* AIAssistant.handle_heredoc_creation
handle_heredoc_creation(w, command, os) ==
    IF Contains(command, "cat >") /\ Contains(command, "<<")
    THEN HeredocFile(w, Strip(Replace(Strip(Head(SplitOn(command, "<<"))), "cat >", "")))
    ELSE Captured(w, command, os, "Heredoc creation error")

\* the commands execute_command rewrites for Termux, in the order it tries them
gui_commands == <<"xdg-open", "open", "start">>

\* lines 197-202, the loop over gui_commands: [command, failed]
RECURSIVE GuiLoop(_, _, _)
GuiLoop(w, command, cmds) ==
    IF cmds = <<>> THEN [command |-> command, failed |-> FALSE]
    ELSE IF ~Contains(command, Head(cmds)) THEN GuiLoop(w, command, Tail(cmds))
    ELSE IF w.termux_open
    THEN GuiLoop(w, Replace(command, Head(cmds), "termux-open"), Tail(cmds))
    ELSE [command |-> command, failed |-> TRUE]

\* the markers of an interactive program
InteractiveMarkers ==
    {"./donut", "./snake", "./game", "python3 calculator.py", "python3 game"}

\* the interactive branch as it would be if a timeout and an interrupt were
\* reported the way the captured branch reports them
InteractiveDone_AsCaptured(o, p) ==
    IF o.kind = "interrupt" THEN Res(p.w, 1, "", "", 1, TRUE, p.feas)
    ELSE IF o.kind = "timeout"
    THEN Res(p.w, 1, "", "Command timed out after 60 seconds", 1, FALSE, p.feas)
    ELSE Res(p.w, o.rc, "Interactive program completed", "", 1, FALSE, p.feas)

\* lines 219-231: what the interactive branch returns
InteractiveDone(o, p) ==
    IF o.kind = "timeout"
    THEN Res(p.w, 0, "Animation stopped after 60 seconds", "", 1, FALSE, p.feas)
    ELSE IF o.kind = "interrupt"
    THEN Res(p.w, 0, "Program interrupted by user", "", 1, FALSE, p.feas)
    ELSE Res(p.w, o.rc, "Interactive program completed", "", 1, FALSE, p.feas)

\* lines 204-257: the process is run in interactive or in captured mode
RunCommand(w, command, os) ==
    IF \E m \in InteractiveMarkers : Contains(command, m)
    THEN IF os = <<>> THEN Short(w, 0)
         ELSE InteractiveDone(os[1], Proc(w, command, "interactive", os[1]))
    ELSE Captured(w, command, os, "Command timed out after 5 minutes")

\* command.split()[0][2:]
ExecNameOf(word) == SubSeq(word, 3, Len(word))

\* the check of an executable as it would be without os.chmod
ExeChecked_NoChmod(w, exec_name, e) ==
    IF ~e.exists
    THEN [w |-> w, failed |-> TRUE,
          err |-> "Executable '" \o exec_name \o "' not found in " \o w.working_dir]
    ELSE [w |-> w, failed |-> FALSE, err |-> ""]

\* lines 180-184: the executable exists and is made executable, or the
\* command fails: [w, failed, err]
ExeChecked(w, exec_name, e) ==
    IF ~e.exists
    THEN [w |-> w, failed |-> TRUE,
          err |-> "Executable '" \o exec_name \o "' not found in " \o w.working_dir]
    ELSE [w |-> chmod755(w, e.path), failed |-> FALSE, err |-> ""]

ValidateExe(w, exec_name) == ExeChecked(w, exec_name, check_file_exists(w, exec_name))

\* lines 188-193: the second word of a python command must exist
ValidatePy(w, parts) ==
    IF Len(parts) > 1 /\ ~check_file_exists(w, parts[2]).exists
    THEN [w |-> w, failed |-> TRUE,
          err |-> "Python file '" \o parts[2] \o "' not found in " \o w.working_dir]
    ELSE [w |-> w, failed |-> FALSE, err |-> ""]

\* lines 177-193 of execute_command: the existence checks
Validate(w, command) ==
    IF StartsWith(command, "./") THEN ValidateExe(w, ExecNameOf(Head(Split(command))))
    ELSE IF StartsWith(command, "python ") \/ StartsWith(command, "python3 ")
    THEN ValidatePy(w, Split(command))
    ELSE [w |-> w, failed |-> FALSE, err |-> ""]

\* lines 199-257: after the loop over gui_commands
GuiDone(w1, os, g) ==
    IF g.failed
    THEN Res(w1, 1, "", "Install termux-tools: pkg install termux-tools", 0, FALSE, TRUE)
    ELSE RunCommand(w1, g.command, os)

\* lines 177-257: after the existence checks returned v
GuiAndRun(v, command, os) ==
    IF v.failed THEN Res(v.w, 1, "", v.err, 0, FALSE, TRUE)
    ELSE GuiDone(v.w, os, GuiLoop(v.w, command, gui_commands))

\* lines 177-257 of execute_command
CheckAndRun(w, command, os) == GuiAndRun(Validate(w, command), command, os)

\* AIAssistant.execute_command
execute_command(w, command, os) ==
    IF Contains(command, " && cd ") \/ StartsWith(command, "cd ")
    THEN handle_directory_operations(w, command, os)
    ELSE IF Contains(command, "<<") /\ Contains(command, "EOF")
    THEN handle_heredoc_creation(w, command, os)
    ELSE CheckAndRun(w, IF Contains(command, "gcc ") /\ Contains(command, ".c")
                        THEN fix_gcc_command(w, command)
                        ELSE command, os)

\* the pre-execution check of execute_step for 'python3 ' commands: the
\* first word ending in .py must exist; TRUE when the check passes
RECURSIVE PyPrecheck(_, _)
PyPrecheck(w, parts) ==
    IF parts = <<>> THEN TRUE
    ELSE IF EndsWith(Head(parts), ".py") THEN check_file_exists(w, Head(parts)).exists
    ELSE PyPrecheck(w, Tail(parts))

\* the outcome of one step:
\*   ok      the value execute_step returns
\*   raised  an exception left execute_step (AttributeError on a step that is
\*           no dict, or on a command that is no string)
\*   intr    KeyboardInterrupt left execute_step
\*   feas, short            as for a command
\*   shown_out, shown_err   the stdout and stderr text execute_step printed
StepRes(w, ok, raised, intr, feas, short, shown_out, shown_err) ==
    [w |-> w, ok |-> ok, raised |-> raised, intr |-> intr, feas |-> feas,
     short |-> short, shown_out |-> shown_out, shown_err |-> shown_err]

\* execute_step as it would be if it printed no stderr
StepOf_Silent(r) == StepRes(r.w, r.rc = 0, FALSE, r.intr, r.feas, r.short, r.out, "")

\* execute_step as it would be if every command step left the session in
\* the root directory
StepOf_Reset(r) ==
    StepRes([r.w EXCEPT !.working_dir = "/", !.cwd = "/"], r.rc = 0, FALSE, r.intr,
            r.feas, r.short, r.out, r.err)

\* lines 531-543: the step outcome of what execute_command returned
StepOf(r) == StepRes(r.w, r.rc = 0, FALSE, r.intr, r.feas, r.short, r.out, r.err)

\* lines 512-543 of execute_step: a step with a non-empty string command
CommandStep(w, cmd, os) ==
    IF StartsWith(cmd, "./") /\ ~check_file_exists(w, ExecNameOf(Head(Split(cmd)))).exists
    THEN StepRes(w, FALSE, FALSE, FALSE, TRUE, FALSE, "", "")
    ELSE IF ~StartsWith(cmd, "./") /\ Contains(cmd, "python3 ") /\ ~PyPrecheck(w, Split(cmd))
    THEN StepRes(w, FALSE, FALSE, FALSE, TRUE, FALSE, "", "")
    ELSE StepOf(execute_command(w, cmd, os))

\* lines 504: the step outcome of what create_file_with_content returned
FileStep(c) == StepRes(c.w, c.ok, FALSE, FALSE, TRUE, FALSE, "", "")

\* lines 499-544 of execute_step, on the fields step.get returned
Dispatch(w, os, step_type, command, filename, content) ==
    IF step_type = Str("file_create")
    THEN IF Truthy(filename) /\ Truthy(content)
         THEN FileStep(create_file_with_content(w, filename, content))
         ELSE StepRes(w, FALSE, FALSE, FALSE, TRUE, FALSE, "", "")
    ELSE IF step_type = Str("info") THEN StepRes(w, TRUE, FALSE, FALSE, TRUE, FALSE, "", "")
    ELSE IF ~Truthy(command) THEN StepRes(w, TRUE, FALSE, FALSE, TRUE, FALSE, "", "")
    ELSE IF command.tag # "str" THEN StepRes(w, FALSE, TRUE, FALSE, TRUE, FALSE, "", "")
    ELSE CommandStep(w, command.s, os)

\* AIAssistant.execute_step; a step that is no dict has no get
execute_step(w, step, os) ==
    IF ~step.isobj THEN StepRes(w, FALSE, TRUE, FALSE, TRUE, FALSE, "", "")
    ELSE Dispatch(w, os, Get(step, "type", "command"), Get(step, "command", ""),
                  Get(step, "filename", ""), Get(step, "content", ""))

(***************************************************************************)
(* The plan parser.  json.loads is modelled by a recursive-descent parser  *)
(* for JSON without string escapes; a decoded value is a record            *)
(*   [t, s, items]  with t in "str", "num", "null", "bool", "list", "obj", *)
(* s the text of a string or number, and items the elements of a list or   *)
(* the members [k, v] of an object.                                        *)
(***************************************************************************)

JStr(s) == [t |-> "str", s |-> s, items |-> <<>>]
JNum(s) == [t |-> "num", s |-> s, items |-> <<>>]
JBool(s) == [t |-> "bool", s |-> s, items |-> <<>>]
JNull == [t |-> "null", s |-> "", items |-> <<>>]
JList(items) == [t |-> "list", s |-> "", items |-> items]
JObj(members) == [t |-> "obj", s |-> "", items |-> members]

\* the result of a parsing step: the value and the position after it
ParseOk(v, i) == [ok |-> TRUE, v |-> v, i |-> i]
ParseFail == [ok |-> FALSE, v |-> JNull, i |-> 0]

\* s[i-1:j] of Python: the characters of s from position i to position j,
\* as many of them as s has
Slice(s, i, j) == SubSeq(s, i, IF j > Len(s) THEN Len(s) ELSE j)

\* the character of s at position i, "" past the end
CharAt(s, i) == IF i >= 1 /\ i <= Len(s) THEN SubSeq(s, i, i) ELSE ""

\* the first position at or after i that holds no whitespace
RECURSIVE SkipWs(_, _)
SkipWs(s, i) == IF IsSpace(CharAt(s, i)) THEN SkipWs(s, i + 1) ELSE i

\* the first position at or after i that holds no digit
RECURSIVE DigitsEnd(_, _)
DigitsEnd(s, i) ==
    IF CharAt(s, i) \in {"0", "1", "2", "3", "4", "5", "6", "7", "8", "9"}
    THEN DigitsEnd(s, i + 1)
    ELSE i

NumberTo(s, i, j) == ParseOk(JNum(SubSeq(s, i, j - 1)), j)

ParseNumber(s, i) == NumberTo(s, i, DigitsEnd(s, i))

\* the position of the quote that closes the string whose text starts at
\* i, 0 when there is none; a backslash takes the character after it along
RECURSIVE ClosingQuote(_, _)
ClosingQuote(s, i) ==
    IF i > Len(s) THEN 0
    ELSE IF CharAt(s, i) = "\"" THEN i
    ELSE IF CharAt(s, i) = "\\" THEN ClosingQuote(s, i + 2)
    ELSE ClosingQuote(s, i + 1)

\* the character an escape stands for (\b and \u are in no input)
EscapeOf(c) ==
    IF c = "n" THEN "\n" ELSE IF c = "t" THEN "\t" ELSE IF c = "r" THEN "\r"
    ELSE IF c = "f" THEN "\f" ELSE c

\* the text of a string with its escapes decoded; an escape JSON does not
\* have is invalid
RECURSIVE Unescape(_, _)
Unescape(t, acc) ==
    IF t = "" THEN [ok |-> TRUE, s |-> acc]
    ELSE IF CharAt(t, 1) # "\\" THEN Unescape(Tail(t), acc \o CharAt(t, 1))
    ELSE IF CharAt(t, 2) \notin {"\"", "\\", "/", "n", "t", "r", "f"}
    THEN [ok |-> FALSE, s |-> ""]
    ELSE Unescape(SubSeq(t, 3, Len(t)), acc \o EscapeOf(CharAt(t, 2)))

StringOf(u, j) == IF u.ok THEN ParseOk(JStr(u.s), j + 1) ELSE ParseFail

\* a string whose text starts at i and whose closing quote is at j; a
\* string that is not closed, or holds a line break, is invalid
StringTo(s, i, j) ==
    IF j = 0 \/ Contains(SubSeq(s, i, j - 1), "\n") THEN ParseFail
    ELSE StringOf(Unescape(SubSeq(s, i, j - 1), ""), j)

ParseString(s, i) == StringTo(s, i, ClosingQuote(s, i))

RECURSIVE ParseValue(_, _)
RECURSIVE ParseItems(_, _, _)
RECURSIVE ParseMembers(_, _, _)

\* after an element of a list: a comma and the next element, or the end
ItemNext(s, acc, i) ==
    IF CharAt(s, i) = "," THEN ParseItems(s, i + 1, acc)
    ELSE IF CharAt(s, i) = "]" THEN ParseOk(JList(acc), i + 1)
    ELSE ParseFail

ItemDone(s, acc, r) ==
    IF ~r.ok THEN ParseFail ELSE ItemNext(s, Append(acc, r.v), SkipWs(s, r.i))

ParseItems(s, i, acc) == ItemDone(s, acc, ParseValue(s, i))

ArrayAt(s, i) ==
    IF CharAt(s, i) = "]" THEN ParseOk(JList(<<>>), i + 1) ELSE ParseItems(s, i, <<>>)

ParseArray(s, i) == ArrayAt(s, SkipWs(s, i))

\* after a member of an object: a comma and the next member, or the end
MemberNext(s, acc, i) ==
    IF CharAt(s, i) = "," THEN ParseMembers(s, i + 1, acc)
    ELSE IF CharAt(s, i) = "}" THEN ParseOk(JObj(acc), i + 1)
    ELSE ParseFail

MemberValue(s, acc, key, r) ==
    IF ~r.ok THEN ParseFail
    ELSE MemberNext(s, Append(acc, [k |-> key, v |-> r.v]), SkipWs(s, r.i))

MemberColonAt(s, acc, key, i) ==
    IF CharAt(s, i) # ":" THEN ParseFail
    ELSE MemberValue(s, acc, key, ParseValue(s, i + 1))

MemberColon(s, acc, k) ==
    IF ~k.ok THEN ParseFail ELSE MemberColonAt(s, acc, k.v.s, SkipWs(s, k.i))

MemberKey(s, acc, i) ==
    IF CharAt(s, i) # "\"" THEN ParseFail
    ELSE MemberColon(s, acc, ParseString(s, i + 1))

ParseMembers(s, i, acc) == MemberKey(s, acc, SkipWs(s, i))

ObjectAt(s, i) ==
    IF CharAt(s, i) = "}" THEN ParseOk(JObj(<<>>), i + 1) ELSE MemberKey(s, <<>>, i)

ParseObject(s, i) == ObjectAt(s, SkipWs(s, i))

ValueAt(s, i) ==
    IF CharAt(s, i) = "{" THEN ParseObject(s, i + 1)
    ELSE IF CharAt(s, i) = "[" THEN ParseArray(s, i + 1)
    ELSE IF CharAt(s, i) = "\"" THEN ParseString(s, i + 1)
    ELSE IF DigitsEnd(s, i) > i THEN ParseNumber(s, i)
    ELSE IF Slice(s, i, i + 3) = "null" THEN ParseOk(JNull, i + 4)
    ELSE IF Slice(s, i, i + 3) = "true" THEN ParseOk(JBool("true"), i + 4)
    ELSE IF Slice(s, i, i + 4) = "false" THEN ParseOk(JBool("false"), i + 5)
    ELSE ParseFail

ParseValue(s, i) == ValueAt(s, SkipWs(s, i))

\* json.loads: one value and nothing but whitespace after it; ok = FALSE
\* models JSONDecodeError
LoadsEnd(s, r) == IF r.ok /\ SkipWs(s, r.i) > Len(s) THEN r ELSE ParseFail

json_loads(s) == LoadsEnd(s, ParseValue(s, 1))

\* lines 479-483: the plan built when the response holds no JSON block
CommandPlan(response_clean) ==
    JObj(<<[k |-> "analysis", v |-> JStr("Direct execution")],
           [k |-> "steps", v |-> JList(<<JObj(<<
               [k |-> "description", v |-> JStr(response_clean)],
               [k |-> "command", v |-> JStr(response_clean)],
               [k |-> "type", v |-> JStr("command")]>>)>>)],
           [k |-> "summary", v |-> JStr("Command execution")]>>)

\* response[:100]
SummaryLen == 100

\* lines 486-490: the plan built in the except clause
InfoPlan(response) ==
    JObj(<<[k |-> "analysis", v |-> JStr("Text response")],
           [k |-> "steps", v |-> JList(<<JObj(<<
               [k |-> "description", v |-> JStr(response)],
               [k |-> "command", v |-> JStr("")],
               [k |-> "type", v |-> JStr("info")]>>)>>)],
           [k |-> "summary", v |-> JStr(Slice(response, 1, SummaryLen))]>>)

\* what parse_response hands back: the plan, or an exception
Returned(plan) == [raised |-> FALSE, plan |-> plan]
Raised == [raised |-> TRUE, plan |-> JNull]

\* parse_response as it would be without its except clause
Decoded_Raise(response, d) == IF d.ok THEN Returned(d.v) ELSE Raised

\* lines 476 and 484-490: json.loads raised inside the try, or returned
Decoded(response, d) == IF d.ok THEN Returned(d.v) ELSE Returned(InfoPlan(response))

\* re.search(r'\{.*\}', s, re.DOTALL): the text from the first "{" to the
\* last "}" after it; [found, text]
SearchSpan(s, first, last) ==
    IF first # 0 /\ last > first
    THEN [found |-> TRUE, text |-> SubSeq(s, first, last)]
    ELSE [found |-> FALSE, text |-> ""]

json_search(s) == SearchSpan(s, Find(s, "{"), RFind(s, "}"))

\* lines 473-483 of parse_response
ParseClean(response, response_clean, json_match) ==
    IF json_match.found
    THEN Decoded(response, json_loads(json_match.text))
    ELSE Returned(CommandPlan(response_clean))

ParseStripped(response, response_clean) ==
    ParseClean(response, response_clean, json_search(response_clean))

\* AIAssistant.parse_response
parse_response(response) == ParseStripped(response, Strip(response))

\* the member of a decoded object that dict lookup finds, JNull when absent
RECURSIVE Lookup(_, _, _)
Lookup(members, key, found) ==
    IF members = <<>> THEN found
    ELSE Lookup(Tail(members), key,
                IF Head(members).k = key THEN Head(members).v ELSE found)

HasKey(v, key) == v.t = "obj" /\ \E i \in 1..Len(v.items) : v.items[i].k = key

(***************************************************************************)
(* The session: AIAssistant.__init__ and AIAssistant.process_request.      *)
(***************************************************************************)

VARIABLES
    pc,           \* "init", "idle", "respond", "exec", "done", "noplan", "nosteps",
                  \* "aborted", "interrupted"
    initial_dir,  \* sys.argv[2], "" when none was given
    requested,    \* the directory __init__ chose before the restricted check
    home_dir,     \* AIAssistant.home_dir
    working_dir,  \* AIAssistant.working_dir
    cwd,          \* the current directory of the process
    dirs,         \* the existing directories
    files,        \* the existing regular files
    termux_open,  \* whether shutil.which('termux-open') finds the opener
    procs,        \* the processes started, in order
    plan,         \* plan['steps'] of the parsed response
    idx,          \* the index of the step the loop is at (i of enumerate)
    success,      \* the counter success of process_request
    results,      \* what each executed step returned, in order
    tally,        \* the "Completed: success/total" line, once printed
    response,     \* ai_response, the text call_ai_api returned
    parts,        \* the pieces the text was put together from
    parsed,       \* what parse_response returned for the text
    gcc_command,  \* a compile command given to fix_gcc_command
    gcc_fixed,    \* the command fix_gcc_command returned for it
    api_keys,     \* whether OPENROUTER_API_KEY or GEMINI_API_KEY is set
    command_history,  \* the rows of table command_history of AIMemory
    anim,         \* the animation thread: frames printed, and whether it ended
    display,      \* what was written to the terminal, in order, by whom
    scan_path,    \* the argument scan_directory is called with
    snapshot,     \* what scan_directory returned
    generator,    \* a run of the action generator: its arguments and environment
    stdout        \* what the action generator printed, in order

vars == <<pc, initial_dir, requested, home_dir, working_dir, cwd, dirs, files,
          termux_open, procs, plan, idx, success, results, tally, response, parts,
          parsed,
                   gcc_command, gcc_fixed,
                   api_keys, command_history, anim, display,
                   scan_path, snapshot, generator, stdout>>

World ==
    [working_dir |-> working_dir, cwd |-> cwd, dirs |-> dirs, files |-> files,
     termux_open |-> termux_open, procs |-> procs]

\* the prefixes __init__ treats as restricted
restricted == <<"/system", "/proc", "/dev", "/sys", "/root">>

\* any(self.working_dir.startswith(p) for p in restricted)
InRestricted(d) == \E i \in 1..Len(restricted) : StartsWith(d, restricted[i])

(***************************************************************************)
(* Inputs: the sessions, the filesystems and the plans that are explored.  *)
(***************************************************************************)

\* the longest plan explored
MaxSteps == 3

\* the most processes one step is given outcomes for
MaxProcs == 2

BaseDirs ==
    {"/", "/home", "/home/u", "/home/u/p", "/home/u/ro", "/home/u/locked",
     "/proc", "/proc/1", "/sys", "/sys/k", "/root", "/system", "/dev",
     "/sysroot", "/developer", "/dev/shm"}

\* a project directory with a C source that uses the math library and a script
FilesMath ==
    [p \in {"/home/u/foo.c", "/home/u/run.py"} |->
        IF p = "/home/u/foo.c"
        THEN [content |-> "double r = sqrt(2.0);", x |-> FALSE]
        ELSE [content |-> "print(1)", x |-> FALSE]]

\* a project directory with a C source without math, the executable of an
\* earlier build, and a regular file named A
FilesStale ==
    [p \in {"/home/u/foo.c", "/home/u/foo", "/home/u/A"} |->
        IF p = "/home/u/foo.c" THEN [content |-> "int main(){return 0;}", x |-> FALSE]
        ELSE IF p = "/home/u/foo" THEN [content |-> "ELF-old", x |-> FALSE]
        ELSE [content |-> "", x |-> FALSE]]

\* (initial_dir, os.getcwd(), files, termux-open installed)
Sessions ==
    {<<"", "/home/u", FilesMath, TRUE>>,
     <<"", "/home/u", FilesStale, FALSE>>,
     <<"p", "/home/u", FilesMath, TRUE>>,
     <<"/proc/1", "/home/u", FilesStale, TRUE>>,
     <<"", "/sys/k", FilesMath, FALSE>>,
     <<"/nonexistent", "/dev", FilesMath, TRUE>>}

Cmd(c) ==
    [isobj |-> TRUE, type |-> Str("command"), description |-> Str("run"),
     command |-> Str(c), filename |-> Absent, content |-> Absent]

Info(text) ==
    [isobj |-> TRUE, type |-> Str("info"), description |-> Str(text),
     command |-> Str(""), filename |-> Absent, content |-> Absent]

FileCreate(name, text) ==
    [isobj |-> TRUE, type |-> Str("file_create"), description |-> Str("create"),
     command |-> Str(""), filename |-> name, content |-> text]

\* a step that is no JSON object (a string, a number, null)
NonObject ==
    [isobj |-> FALSE, type |-> Absent, description |-> Absent,
     command |-> Absent, filename |-> Absent, content |-> Absent]

\* a step whose command is a non-empty list
ListCommand ==
    [isobj |-> TRUE, type |-> Str("command"), description |-> Str("run"),
     command |-> NonStr, filename |-> Absent, content |-> Absent]

\* a step with no fields at all
EmptyStep ==
    [isobj |-> TRUE, type |-> Absent, description |-> Absent,
     command |-> Absent, filename |-> Absent, content |-> Absent]

\* the steps that are combined freely into plans
CorePool ==
    {Cmd("ls"), Cmd("gcc foo.c -o foo"), Cmd("./foo"), Cmd("mkdir -p A && cd A"),
     Cmd("cd /home/u/ro"), FileCreate(Str("foo.c"), Str("double p = pow(x, 2);")), NonObject}

\* the steps that are explored alone and next to one core step
ExtraPool ==
    {Cmd("gcc foo.c -lm -o foo"), Cmd("python3 run.py"), Cmd("python run.py"),
     Cmd("cd /proc"), Cmd("cd locked"), Info("note"), ListCommand, EmptyStep,
     Cmd("xdg-open f.html"), Cmd("open f.html"), Cmd("start f.html"),
     Cmd("sh ./game"),
     FileCreate(Str("./run"), Str("#!/bin/sh")), FileCreate(Str("tool.sh"), Str("#!/bin/sh")),
     FileCreate(Str("run.py"), Str("pass")),
     Cmd("cat > foo.c << EOF"), Cmd("tee x << EOF"),
     Cmd("cd nowhere"), Cmd("cd foo.c"),
     Cmd("mkdir -p B && cd nowhere && ls"), Cmd("mkdir -p A && cd A && ls"),
     Cmd("cd p && make"), Cmd("cd p && cd nowhere"),
     Cmd("cat open_ports.txt"), Cmd("openssl version"),
     FileCreate(Str("foo.c"), NonStr), FileCreate(Absent, Str("x")),
     FileCreate(Str("new.txt"), Str("")), FileCreate(Str("new.txt"), Absent)}

\* the sequences over S of length at most n
RECURSIVE SeqsUpTo(_, _)
Extend(shorter, S, n) ==
    shorter \cup {Append(q, e) : q \in {t \in shorter : Len(t) = n - 1}, e \in S}

SeqsUpTo(S, n) == IF n = 0 THEN {<<>>} ELSE Extend(SeqsUpTo(S, n - 1), S, n)

Plans ==
    SeqsUpTo(CorePool, MaxSteps)
        \cup {<<e>> : e \in ExtraPool}
        \cup {<<c, e>> : c \in CorePool, e \in ExtraPool}
        \cup {<<e, c>> : e \in ExtraPool, c \in CorePool}

NoTally == [reported |-> FALSE, succeeded |-> 0, total |-> 0]

NoParts == [prefix |-> "", core |-> "", suffix |-> ""]

NotParsed == [raised |-> FALSE, plan |-> JNull]

\* no run of the action generator
NoGenerator ==
    [credential |-> FALSE, importable |-> FALSE, complete_mode |-> FALSE,
     fix_mode |-> FALSE, answered |-> FALSE, query |-> ""]

\* scan_directory has not returned
NoSnapshot == [pending |-> TRUE]

\* the animation thread before process_request starts it
NoAnim == [started |-> FALSE, frames |-> 0, ended |-> FALSE]

Init ==
    /\ pc = "init"
    /\ \E s \in Sessions :
          /\ initial_dir = s[1]
          /\ cwd = s[2]
          /\ files = s[3]
          /\ termux_open = s[4]
    /\ requested = ""
    /\ home_dir = "/home/u"
    /\ working_dir = ""
    /\ dirs = BaseDirs
    /\ procs = <<>>
    /\ plan = <<>>
    /\ idx = 0
    /\ success = 0
    /\ results = <<>>
    /\ tally = NoTally
    /\ response = ""
    /\ parts = NoParts
    /\ parsed = NotParsed
    /\ gcc_command = ""
    /\ gcc_fixed = ""
    /\ api_keys \in BOOLEAN
    /\ command_history = <<>>
    /\ scan_path = Null
    /\ snapshot = NoSnapshot
    /\ generator = NoGenerator
    /\ stdout = <<>>
    /\ anim = NoAnim
    /\ display = <<>>

\* the directory lines 21-24 of __init__ choose
StartDirOf(a) == IF initial_dir # "" /\ Exists(World, a) THEN a ELSE cwd

StartDir == StartDirOf(abspath(initial_dir, cwd))

\* __init__ as it would be without the restricted check
FixRestricted_Keep(d) == d

\* lines 26-29 of __init__: the working directory after the restricted check
FixRestricted(d) == IF InRestricted(d) THEN home_dir ELSE d

\* AIAssistant.__init__
Initialize ==
    /\ pc = "init"
    /\ requested' = StartDir
    /\ working_dir' = FixRestricted(requested')
    /\ cwd' = working_dir'
    /\ pc' = "idle"
    /\ UNCHANGED <<initial_dir, home_dir, dirs, files, termux_open, procs, plan,
                   idx, success, results, tally, response, parts, parsed,
                   gcc_command, gcc_fixed,
                   api_keys, command_history, anim, display,
                   scan_path, snapshot, generator, stdout>>

\* process_request up to the loop: the model answered and parse_response
\* returned a plan with these steps; call_ai_api asks a provider only when
\* its key is set (lines 373 and 384)
ObtainPlan ==
    /\ pc = "idle"
    /\ api_keys
    /\ \E p \in Plans : plan' = p
    /\ idx' = 1
    /\ success' = 0
    /\ pc' = "exec"
    /\ UNCHANGED <<initial_dir, requested, home_dir, working_dir, cwd, dirs, files,
                   termux_open, procs, results, tally, response, parts, parsed,
                   gcc_command, gcc_fixed,
                   api_keys, command_history, anim, display,
                   scan_path, snapshot, generator, stdout>>

\* process_request when call_ai_api returns None (no key is set, or every
\* provider failed): lines 573-574 return at once
NoPlan ==
    /\ pc = "idle"
    /\ pc' = "noplan"
    /\ UNCHANGED <<initial_dir, requested, home_dir, working_dir, cwd, dirs, files,
                   termux_open, procs, plan, idx, success, results, tally, response,
                   parts, parsed,
                   gcc_command, gcc_fixed,
                   api_keys, command_history, anim, display,
                   scan_path, snapshot, generator, stdout>>

\* the ways a step can go: execute_step under every sequence of process
\* outcomes that is exactly as long as the processes the step starts
RECURSIVE StepRuns(_, _, _)
StepRunsOf(w, step, os, r) ==
    IF ~r.short THEN IF r.feas THEN {r} ELSE {}
    ELSE IF Len(os) >= MaxProcs THEN {}
    ELSE UNION {StepRuns(w, step, Append(os, o)) : o \in Outcomes}

StepRuns(w, step, os) == StepRunsOf(w, step, os, execute_step(w, step, os))

\* the loop as it would be if it ended at the first failed step
NextIndex_StopOnFailure(i, ok) == IF ok THEN i + 1 ELSE Len(plan) + 1

\* enumerate(plan['steps'], 1): the loop goes on to the next step whatever
\* execute_step returned
NextIndex(i, ok) == i + 1

\* lines 587-588: success counts the steps for which execute_step returned True
Counted(n, ok) == IF ok THEN n + 1 ELSE n

\* one iteration of the loop of process_request over plan['steps']
ExecuteStep ==
    /\ pc = "exec"
    /\ idx <= Len(plan)
    /\ \E r \in StepRuns(World, plan[idx], <<>>) :
          /\ working_dir' = r.w.working_dir
          /\ cwd' = r.w.cwd
          /\ dirs' = r.w.dirs
          /\ files' = r.w.files
          /\ procs' = r.w.procs
          /\ IF r.intr
             THEN /\ pc' = "interrupted"
                  /\ UNCHANGED <<idx, success, results>>
             ELSE IF r.raised
             THEN /\ pc' = "aborted"
                  /\ UNCHANGED <<idx, success, results>>
             ELSE /\ pc' = "exec"
                  /\ idx' = NextIndex(idx, r.ok)
                  /\ success' = Counted(success, r.ok)
                  /\ results' = Append(results,
                         [step |-> plan[idx], ok |-> r.ok,
                          nprocs |-> Len(r.w.procs) - Len(procs),
                          shown_out |-> r.shown_out, shown_err |-> r.shown_err])
    /\ UNCHANGED <<initial_dir, requested, home_dir, termux_open, plan, tally,
                   response, parts, parsed,
                   gcc_command, gcc_fixed,
                   api_keys, command_history, anim, display,
                   scan_path, snapshot, generator, stdout>>

\* the end of the loop: the "Completed: success/total steps" line
Report ==
    /\ pc = "exec"
    /\ idx > Len(plan)
    /\ tally' = [reported |-> TRUE, succeeded |-> success, total |-> Len(plan)]
    /\ pc' = "done"
    /\ UNCHANGED <<initial_dir, requested, home_dir, working_dir, cwd, dirs, files,
                   termux_open, procs, plan, idx, success, results, response, parts,
                   parsed,
                   gcc_command, gcc_fixed,
                   api_keys, command_history, anim, display,
                   scan_path, snapshot, generator, stdout>>

\* AIMemory.remember_command: one row is inserted into command_history.
\* No statement of process_request, of execute_step or of main of either
\* file calls it, so no action of the session has it in its next state.
remember_command(history, command, ok, output) ==
    Append(history, [command |-> command, success |-> ok, output |-> output])

\* process_request is over: it returned or an exception left it
Ended == pc \in {"done", "noplan", "nosteps", "aborted", "interrupted"}

\* main, lines 612-621: the status the process exits with once
\* process_request is over.  KeyboardInterrupt is the one exception that
\* leaves process_request after the animation was started (sys.exit(130));
\* every return, the one of line 574 included, falls off the end of main.
exit_status == IF pc = "interrupted" THEN 130 ELSE 0

Next == Initialize \/ ObtainPlan \/ NoPlan \/ ExecuteStep \/ Report

Spec == Init /\ [][Next]_vars

(***************************************************************************)
(* process_request from the text of the model's answer: parse_response,    *)
(* then the loop over the steps of the plan it returned.                   *)
(***************************************************************************)

\* a field of a decoded step as execute_step sees it; a value that is no
\* string and that Python treats as false behaves there as null does
FieldVal(v) ==
    IF v.t = "str" THEN Str(v.s)
    ELSE IF v.t = "null" \/ v = JBool("false") \/ v = JNum("0")
            \/ (v.t \in {"list", "obj"} /\ v.items = <<>>) THEN Null
    ELSE NonStr

Field(v, key) == IF HasKey(v, key) THEN FieldVal(Lookup(v.items, key, JNull)) ELSE Absent

\* a decoded element of plan['steps'] as a step of the loop
ToStep(v) ==
    IF v.t # "obj" THEN NonObject
    ELSE [isobj |-> TRUE, type |-> Field(v, "type"),
          description |-> Field(v, "description"), command |-> Field(v, "command"),
          filename |-> Field(v, "filename"), content |-> Field(v, "content")]

\* what the loop iterates over: the elements of a list, the characters of a
\* string, the keys of an object
StepsOf(steps) ==
    IF steps.t = "list" THEN [i \in 1..Len(steps.items) |-> ToStep(steps.items[i])]
    ELSE IF steps.t = "obj" THEN [i \in 1..Len(steps.items) |-> NonObject]
    ELSE [i \in 1..Len(steps.s) |-> NonObject]

\* len(plan['steps']) raises TypeError on a number, a boolean and null
Sized(steps) == steps.t \in {"list", "obj", "str"}

\* well-formed plan objects
PlanCores ==
    {"{\"steps\": []}",
     "{\"analysis\": \"a\", \"steps\": [{\"type\": \"command\", \"command\": \"ls\"}], \"summary\": \"s\"}",
     "{\"steps\": [{\"type\": \"file_create\", \"filename\": \"a.c\", \"content\": \"int main(){}\"}, {\"command\": \"gcc a.c\"}]}"}

\* JSON objects that are no plans, text in braces that is no JSON, text
\* with an opening brace only, prose, nothing
OtherCores ==
    {"{\"foo\": 1}", "{\"steps\": 5}", "{\"steps\": [\"ls\"]}", "{steps: ls}",
     "{\"steps\": [{\"command\": \"ls\"", "just run ls", "ls", ""}

\* what surrounds the core: prose, a code fence (written with tildes), white
\* space, prose with braces of its own
Prefixes == {"", "Here is the plan:\n", "~~~json\n", "  ", "use {x} then ", "} "}

Suffixes == {"", "\n~~~", "\n", " done.", " {y}", " }"}

\* the model's answer is text; process_request returns at once on an empty one
InitParse ==
    /\ pc = "respond"
    /\ \E p \in Prefixes, c \in PlanCores \cup OtherCores, s \in Suffixes :
          /\ parts = [prefix |-> p, core |-> c, suffix |-> s]
          /\ response = p \o c \o s
    /\ response # ""
    /\ parsed = NotParsed
    /\ gcc_command = ""
    /\ gcc_fixed = ""
    /\ api_keys = TRUE
    /\ command_history = <<>>
    /\ scan_path = Null
    /\ snapshot = NoSnapshot
    /\ generator = NoGenerator
    /\ stdout = <<>>
    /\ anim = NoAnim
    /\ display = <<>>
    /\ initial_dir = ""
    /\ requested = "/home/u"
    /\ home_dir = "/home/u"
    /\ working_dir = "/home/u"
    /\ cwd = "/home/u"
    /\ dirs = BaseDirs
    /\ files = FilesMath
    /\ termux_open = TRUE
    /\ procs = <<>>
    /\ plan = <<>>
    /\ idx = 0
    /\ success = 0
    /\ results = <<>>
    /\ tally = NoTally

\* lines 578-584 of process_request after parse_response returned r
Parsed(r) ==
    /\ parsed' = r
    /\ IF r.raised THEN pc' = "aborted" /\ UNCHANGED <<plan, idx>>
       ELSE IF ~HasKey(r.plan, "steps") THEN pc' = "nosteps" /\ UNCHANGED <<plan, idx>>
       ELSE IF ~Sized(Lookup(r.plan.items, "steps", JNull))
       THEN pc' = "aborted" /\ UNCHANGED <<plan, idx>>
       ELSE /\ pc' = "exec"
            /\ plan' = StepsOf(Lookup(r.plan.items, "steps", JNull))
            /\ idx' = 1

\* process_request from line 578 up to the loop
ParseResponse ==
    /\ pc = "respond"
    /\ Parsed(parse_response(response))
    /\ success' = 0
    /\ UNCHANGED <<initial_dir, requested, home_dir, working_dir, cwd, dirs, files,
                   termux_open, procs, results, tally, response, parts,
                   gcc_command, gcc_fixed,
                   api_keys, command_history, anim, display,
                   scan_path, snapshot, generator, stdout>>

NextParse == ParseResponse \/ ExecuteStep \/ Report

SpecParse == InitParse /\ [][NextParse]_vars

(***************************************************************************)
(* fix_gcc_command on its own: a compile command, and a source file foo.c  *)
(* in /home/u, seen from a working directory that holds it or does not.    *)
(***************************************************************************)

GccCommands ==
    {"gcc foo.c -o foo", "gcc foo.c -lm -o foo", "gcc -Wall foo.c",
     "gcc -o foo foo.c -lmylib", "gcc main.c foo.c -o foo",
     "gcc -c foo.c && gcc foo.o -o foo"}

SourceTexts ==
    {"double r = sqrt(2.0);", "y = sin(x);", "y = cos(x);", "p = pow(x, 2);",
     "#include <math.h>", "int main(){return 0;}", "/* sqrt, pow */"}

\* foo.c with the text, and main.c without math
FilesWith(text) ==
    [p \in {"/home/u/foo.c", "/home/u/main.c"} |->
        IF p = "/home/u/foo.c"
        THEN [content |-> text, x |-> FALSE]
        ELSE [content |-> "int main(){return f();}", x |-> FALSE]]

InitGcc ==
    /\ pc = "compile"
    /\ gcc_command \in GccCommands
    /\ gcc_fixed = ""
    /\ working_dir \in {"/home/u", "/home/u/p"}
    /\ cwd = working_dir
    /\ \E text \in SourceTexts : files = FilesWith(text)
    /\ initial_dir = ""
    /\ requested = working_dir
    /\ home_dir = "/home/u"
    /\ dirs = BaseDirs
    /\ termux_open = TRUE
    /\ procs = <<>>
    /\ plan = <<>>
    /\ idx = 0
    /\ success = 0
    /\ results = <<>>
    /\ tally = NoTally
    /\ response = ""
    /\ parts = NoParts
    /\ parsed = NotParsed
    /\ api_keys = TRUE
    /\ command_history = <<>>
    /\ scan_path = Null
    /\ snapshot = NoSnapshot
    /\ generator = NoGenerator
    /\ stdout = <<>>
    /\ anim = NoAnim
    /\ display = <<>>

\* lines 173-175 of execute_command: the command is given to fix_gcc_command
FixGcc ==
    /\ pc = "compile"
    /\ Contains(gcc_command, "gcc ") /\ Contains(gcc_command, ".c")
    /\ gcc_fixed' = fix_gcc_command(World, gcc_command)
    /\ pc' = "fixed"
    /\ UNCHANGED <<initial_dir, requested, home_dir, working_dir, cwd, dirs, files,
                   termux_open, procs, plan, idx, success, results, tally, response,
                   parts, parsed, gcc_command,
                   api_keys, command_history, anim, display,
                   scan_path, snapshot, generator, stdout>>

NextGcc == FixGcc

SpecGcc == InitGcc /\ [][NextGcc]_vars

(***************************************************************************)
(* The animation thread of process_request (lines 558-567) next to the     *)
(* main thread.  threading.Thread(target=animate).start() is followed by   *)
(* time.sleep(1.5) and by no join: the two threads share the terminal and  *)
(* nothing orders their writes, so every interleaving of the steps below   *)
(* is a run.  pc is the position of the main thread: "request" before the  *)
(* thread is started, "sleeping" in time.sleep, "calling" in call_ai_api,  *)
(* then the values of the plan loop.                                       *)
(***************************************************************************)

\* range(15) of animate
AnimFrames == 15

\* one write to the terminal
Shown(by, text) == [by |-> by, text |-> text]

\* the plans the model answers with while the animation is watched
AnimPlans == {<<Cmd("ls")>>, <<Info("note"), NonObject>>}

\* the variables neither thread touches before the plan loop
fixed_vars ==
    <<initial_dir, requested, home_dir, working_dir, cwd, dirs, files, termux_open,
      procs, results, tally, response, parts, parsed, gcc_command, gcc_fixed,
      api_keys, command_history, scan_path, snapshot, generator, stdout>>

InitAnim ==
    /\ pc = "request"
    /\ api_keys \in BOOLEAN
    /\ anim = NoAnim
    /\ display = <<>>
    /\ initial_dir = ""
    /\ requested = "/home/u"
    /\ home_dir = "/home/u"
    /\ working_dir = "/home/u"
    /\ cwd = "/home/u"
    /\ dirs = BaseDirs
    /\ files = FilesMath
    /\ termux_open = TRUE
    /\ procs = <<>>
    /\ plan = <<>>
    /\ idx = 0
    /\ success = 0
    /\ results = <<>>
    /\ tally = NoTally
    /\ response = ""
    /\ parts = NoParts
    /\ parsed = NotParsed
    /\ gcc_command = ""
    /\ gcc_fixed = ""
    /\ command_history = <<>>
    /\ scan_path = Null
    /\ snapshot = NoSnapshot
    /\ generator = NoGenerator
    /\ stdout = <<>>

\* lines 547-566: the request is announced and the thread is started
StartAnimation ==
    /\ pc = "request"
    /\ display' = Append(display, Shown("main", "Processing"))
    /\ anim' = [anim EXCEPT !.started = TRUE]
    /\ pc' = "sleeping"
    /\ UNCHANGED <<fixed_vars, plan, idx, success>>

\* lines 561-563, one iteration of animate: a frame is printed
AnimFrame ==
    /\ anim.started /\ ~anim.ended
    /\ anim.frames < AnimFrames
    /\ display' = Append(display, Shown("animate", "Analyzing"))
    /\ anim' = [anim EXCEPT !.frames = anim.frames + 1]
    /\ UNCHANGED <<fixed_vars, pc, plan, idx, success>>

\* line 564: after the last frame animate prints its last line and returns
AnimComplete ==
    /\ anim.started /\ ~anim.ended
    /\ anim.frames = AnimFrames
    /\ display' = Append(display, Shown("animate", "Analysis complete!"))
    /\ anim' = [anim EXCEPT !.ended = TRUE]
    /\ UNCHANGED <<fixed_vars, pc, plan, idx, success>>

\* line 567: time.sleep(1.5) returns, whatever the thread has done by then
WakeUp ==
    /\ pc = "sleeping"
    /\ pc' = "calling"
    /\ UNCHANGED <<fixed_vars, plan, idx, success, anim, display>>

\* lines 394-395 and 573-574: call_ai_api reports that it has no answer
\* and process_request returns
NoAnswer ==
    /\ pc = "calling"
    /\ display' = Append(display,
                         Shown("main", "No API keys configured or all APIs failed"))
    /\ pc' = "noplan"
    /\ UNCHANGED <<fixed_vars, plan, idx, success, anim>>

\* lines 571-583: the model answered with a plan and the loop is announced
Answer ==
    /\ pc = "calling"
    /\ api_keys
    /\ \E p \in AnimPlans : plan' = p
    /\ idx' = 1
    /\ success' = 0
    /\ display' = Append(display, Shown("main", "Executing steps"))
    /\ pc' = "exec"
    /\ UNCHANGED <<fixed_vars, anim>>

NextAnim ==
    \/ StartAnimation \/ AnimFrame \/ AnimComplete \/ WakeUp \/ NoAnswer \/ Answer
    \/ ExecuteStep \/ Report

SpecAnim == InitAnim /\ [][NextAnim]_vars

(***************************************************************************)
(* AIAssistant.scan_directory, the snapshot of a directory.  A dict is a   *)
(* record; the lists of the snapshot are sets, since os.listdir gives the  *)
(* names in no particular order.                                           *)
(***************************************************************************)

\* directories whose os.listdir raises PermissionError
UnreadableDirs == {"/root", "/home/u/locked"}

\* the names scan_directory files under package_files
PackageNames ==
    {"requirements.txt", "package.json", "Pipfile", "pyproject.toml", "Cargo.toml",
     "Makefile"}

\* the extensions scan_directory files under code_files
CodeExtensions == {".js", ".java", ".cpp", ".c", ".go", ".rs", ".php", ".html"}

\* os.path.join(path, ''): the text every entry of the directory starts with
Under(path) == IF path = "/" THEN "/" ELSE path \o "/"

\* os.listdir(path): the names of the files and directories directly in it
listdir(w, path) ==
    {Slice(f, Len(Under(path)) + 1, Len(f)) :
        f \in {g \in DOMAIN w.files \cup w.dirs :
                 /\ StartsWith(g, Under(path)) /\ Len(g) > Len(Under(path))
                 /\ ~Contains(Slice(g, Len(Under(path)) + 1, Len(g)), "/")}}

\* os.listdir that lists a directory whatever its permissions
ListdirRaises_Missing(w, path) == path \notin w.dirs

\* os.listdir(path) raises: no such directory, not a directory, no permission
ListdirRaises(w, path) == path \notin w.dirs \/ path \in UnreadableDirs

\* line 92: what the except clause returns
ScanError(path) == [error |-> "OSError", current_dir |-> path]

\* lines 59-66: git status when the directory has .git; None unless the
\* process exited with status 0
GitStatus(is_git, git) ==
    IF is_git /\ git.kind = "exit" /\ git.rc = 0 THEN Str(Strip(git.out)) ELSE Null

\* lines 69-89: the entries that are shown, sorted into the lists
Listing(w, path, shown, is_git, git) ==
    [current_dir |-> Str(path),
     files |-> {n \in shown : Under(path) \o n \in DOMAIN w.files},
     dirs |-> {n \in shown : Under(path) \o n \in w.dirs},
     executables |-> {n \in shown : RunnableAt(w, Under(path) \o n)},
     package_files |-> {n \in shown : Under(path) \o n \in DOMAIN w.files
                                       /\ n \in PackageNames},
     python_files |-> {n \in shown : Under(path) \o n \in DOMAIN w.files
                                      /\ n \notin PackageNames /\ EndsWith(n, ".py")},
     code_files |-> {n \in shown : Under(path) \o n \in DOMAIN w.files
                                    /\ n \notin PackageNames /\ ~EndsWith(n, ".py")
                                    /\ \E e \in CodeExtensions : EndsWith(n, e)},
     is_git |-> is_git,
     git_status |-> GitStatus(is_git, git),
     total_files |-> Cardinality({n \in shown : Under(path) \o n \in DOMAIN w.files})]

\* lines 51-92 for a path that is a string
ScanAt(w, path, git) ==
    IF ListdirRaises(w, path) THEN ScanError(Str(path))
    ELSE Listing(w, path, {n \in listdir(w, path) : ~StartsWith(n, ".")},
                 Under(path) \o ".git" \in DOMAIN w.files \cup w.dirs, git)

\* AIAssistant.scan_directory: None stands for working_dir, and a path
\* that is no string raises TypeError in os.path.join, inside the try
scan_directory(w, path, git) ==
    IF path = Null THEN ScanAt(w, w.working_dir, git)
    ELSE IF path.tag # "str" THEN ScanError(path)
    ELSE ScanAt(w, path.s, git)

\* a project with a hidden file, an executable, a Makefile and a repository
FilesProject ==
    [p \in {"/home/u/foo.c", "/home/u/run.py", "/home/u/foo", "/home/u/.env",
            "/home/u/Makefile", "/home/u/p/index.html", "/home/u/.git"} |->
        [content |-> "", x |-> (p = "/home/u/foo")]]

\* the arguments scan_directory is called with
ScanPaths ==
    {Null, NonStr, Str("/home/u"), Str("/home/u/p"), Str("/home/u/locked"), Str("/root"),
     Str("/nowhere"), Str("/home/u/foo.c"), Str("/")}

InitScan ==
    /\ pc = "scan"
    /\ scan_path \in ScanPaths
    /\ snapshot = NoSnapshot
    /\ generator = NoGenerator
    /\ stdout = <<>>
    /\ working_dir \in {"/home/u", "/home/u/p", "/home/u/locked"}
    /\ cwd = working_dir
    /\ files \in {FilesProject, FilesMath, FilesStale}
    /\ dirs = BaseDirs
    /\ initial_dir = ""
    /\ requested = working_dir
    /\ home_dir = "/home/u"
    /\ termux_open = TRUE
    /\ procs = <<>>
    /\ plan = <<>>
    /\ idx = 0
    /\ success = 0
    /\ results = <<>>
    /\ tally = NoTally
    /\ response = ""
    /\ parts = NoParts
    /\ parsed = NotParsed
    /\ gcc_command = ""
    /\ gcc_fixed = ""
    /\ api_keys = TRUE
    /\ command_history = <<>>
    /\ anim = NoAnim
    /\ display = <<>>

\* the variables a scan leaves alone
unscanned_vars ==
    <<initial_dir, requested, home_dir, working_dir, cwd, termux_open, procs, plan,
      idx, success, results, tally, response, parts, parsed, gcc_command, gcc_fixed,
      api_keys, command_history, anim, display, scan_path, generator, stdout>>

\* the directory that is to be scanned is removed by someone else before
\* scan_directory lists it
Vanish ==
    /\ pc = "scan"
    /\ scan_path.tag = "str" /\ scan_path.s \in dirs /\ scan_path.s # "/"
    /\ dirs' = {d \in dirs : d # scan_path.s /\ ~StartsWith(d, Under(scan_path.s))}
    /\ files' = [f \in {g \in DOMAIN files : ~StartsWith(g, Under(scan_path.s))} |->
                    files[f]]
    /\ UNCHANGED <<unscanned_vars, pc, snapshot>>

\* a call of scan_directory; git status, when it is run, ends in any way
Scan ==
    /\ pc = "scan"
    /\ \E git \in Outcomes : snapshot' = scan_directory(World, scan_path, git)
    /\ pc' = "scanned"
    /\ UNCHANGED <<unscanned_vars, dirs, files>>

NextScan == Vanish \/ Scan

SpecScan == InitScan /\ [][NextScan]_vars

(***************************************************************************)
(* The start of a session on its own: __init__ for many starting           *)
(* directories, current directories and home directories.                  *)
(***************************************************************************)

\* the values of the argument initial_dir; "" stands for None
StartArgs ==
    {"", "p", "/home/u/p", "/proc/1", "/sys/k", "/system", "/dev/shm", "/root",
     "/developer", "/sysroot", "/nonexistent", "/"}

\* the directories the program is started from
StartCwds == {"/home/u", "/sys/k", "/dev", "/developer", "/home/u/p"}

\* the values of os.path.expanduser('~')
Homes == {"/home/u", "/root"}

InitStart ==
    /\ pc = "init"
    /\ initial_dir \in StartArgs
    /\ cwd \in StartCwds
    /\ home_dir \in Homes
    /\ files \in {FilesMath, FilesStale}
    /\ termux_open = TRUE
    /\ requested = ""
    /\ working_dir = ""
    /\ dirs = BaseDirs
    /\ procs = <<>>
    /\ plan = <<>>
    /\ idx = 0
    /\ success = 0
    /\ results = <<>>
    /\ tally = NoTally
    /\ response = ""
    /\ parts = NoParts
    /\ parsed = NotParsed
    /\ gcc_command = ""
    /\ gcc_fixed = ""
    /\ api_keys = TRUE
    /\ command_history = <<>>
    /\ scan_path = Null
    /\ snapshot = NoSnapshot
    /\ generator = NoGenerator
    /\ stdout = <<>>
    /\ anim = NoAnim
    /\ display = <<>>

NextStart == Initialize

SpecStart == InitStart /\ [][NextStart]_vars

(***************************************************************************)
(* The action generator: main of ai_backend.py.  It prints to stdout; a    *)
(* line printed with json.dumps is recorded as the value that was dumped,  *)
(* any other line as its text.  A code fence is written with three tildes. *)
(***************************************************************************)

JsonLine(v) == [form |-> "json", v |-> v]

TextLine(s) == [form |-> "text", v |-> JStr(s)]

\* {"type": type, "content": content}
ActionOf(type, content) ==
    JObj(<<[k |-> "type", v |-> JStr(type)], [k |-> "content", v |-> JStr(content)]>>)

\* type(v).__name__ of a decoded value
TypeName(v) ==
    IF v.t = "str" THEN "str" ELSE IF v.t = "num" THEN "int"
    ELSE IF v.t = "bool" THEN "bool" ELSE IF v.t = "null" THEN "NoneType"
    ELSE IF v.t = "list" THEN "list" ELSE "dict"

\* the text of the AttributeError for v.attr
NoAttribute(v, attr) ==
    "'" \o TypeName(v) \o "' object has no attribute '" \o attr \o "'"

\* a statement of the try block went through with value v, or raised
GenOk(v) == [raised |-> FALSE, msg |-> "", v |-> v]

GenRaise(msg) == [raised |-> TRUE, msg |-> msg, v |-> JNull]

LowerAt(c, i) == IF i = 0 THEN c ELSE SubSeq("abcdefghijklmnopqrstuvwxyz", i, i)

\* s.lower()
RECURSIVE Lower(_)
Lower(s) ==
    IF s = "" THEN ""
    ELSE LowerAt(SubSeq(s, 1, 1), Find("ABCDEFGHIJKLMNOPQRSTUVWXYZ", SubSeq(s, 1, 1)))
            \o Lower(Tail(s))

\* path.split('.')[-1]
LastPart(path) == Slice(path, RFind(path, ".") + 1, Len(path))

\* lines 209-214 of validate_file_content: a line of whitespace becomes ""
FixedLines(lines) ==
    [i \in 1..Len(lines) |-> IF Strip(lines[i]) # "" THEN lines[i] ELSE ""]

\* validate_file_content; the separator of its split and join is a
\* backslash and an n
validate_file_content(content, file_type) ==
    IF file_type \notin {"python", "py"} THEN GenOk(content)
    ELSE IF content.t # "str" THEN GenRaise(NoAttribute(content, "split"))
    ELSE GenOk(JStr(Join(FixedLines(SplitOn(content.s, "\\n")), "\\n")))

\* action[key] = v
SetMember(members, key, v) ==
    [i \in 1..Len(members) |->
        IF members[i].k = key THEN [k |-> key, v |-> v] ELSE members[i]]

\* line 340: the assignment of the validated content
Validated(a, r) ==
    IF r.raised THEN r ELSE GenOk(JObj(SetMember(a.items, "content", r.v)))

\* lines 339-340 for a file action with this path
FixFile(a, path) ==
    IF path.t # "str" THEN GenRaise(NoAttribute(path, "split"))
    ELSE Validated(a, validate_file_content(Lookup(a.items, "content", JNull),
                                            Lower(LastPart(path.s))))

\* the loop as it would be if it took every element as it is
FixAction_Through(a) == GenOk(a)

\* lines 338-340: the body of the loop for one element of actions
FixAction(a) ==
    IF a.t # "obj" THEN GenRaise(NoAttribute(a, "get"))
    ELSE IF Lookup(a.items, "type", JNull) # JStr("file") \/ ~HasKey(a, "content")
    THEN GenOk(a)
    ELSE FixFile(a, Lookup(a.items, "path", JStr("")))

\* lines 337-340 for a list
RECURSIVE FixLoop(_, _)
FixNext(rest, done, r) == IF r.raised THEN r ELSE FixLoop(rest, Append(done, r.v))

FixLoop(items, done) ==
    IF items = <<>> THEN GenOk(JList(done))
    ELSE FixNext(Tail(items), done, FixAction(Head(items)))

\* lines 337-340, "for action in actions", for any decoded value: a dict
\* gives its keys and a string its characters, and neither has get
Iterate(v) ==
    IF v.t = "list" THEN FixLoop(v.items, <<>>)
    ELSE IF v.t = "obj" THEN (IF v.items = <<>> THEN GenOk(v)
                              ELSE GenRaise(NoAttribute(JStr(""), "get")))
    ELSE IF v.t = "str" THEN (IF v.s = "" THEN GenOk(v)
                              ELSE GenRaise(NoAttribute(v, "get")))
    ELSE GenRaise("'" \o TypeName(v) \o "' object is not iterable")

\* lines 333-344: the inner try; d is what json.loads made of the text
DecodedActions(cleaned, d) ==
    IF ~d.ok THEN GenOk(JList(<<ActionOf("text", Strip(cleaned))>>)) ELSE Iterate(d.v)

\* lines 346-352: the value that is dumped
Checked(r) ==
    IF r.raised THEN JList(<<ActionOf("error", "AI error: " \o r.msg)>>)
    ELSE IF r.v.t # "list" THEN JList(<<ActionOf("error", "Invalid response format")>>)
    ELSE r.v

\* lines 330-331: the end of the text after the opening fence was cut
CutEnd(cleaned) ==
    IF EndsWith(cleaned, "~~~") THEN SubSeq(cleaned, 1, Len(cleaned) - 3) ELSE cleaned

\* lines 325-331 for the stripped text
CutFences(cleaned) ==
    IF StartsWith(cleaned, "~~~json") THEN CutEnd(SubSeq(cleaned, 8, Len(cleaned)))
    ELSE IF StartsWith(cleaned, "~~~") THEN CutEnd(SubSeq(cleaned, 4, Len(cleaned)))
    ELSE CutEnd(cleaned)

\* lines 333-349 for the cleaned text
GeneratedFrom(cleaned) == Checked(DecodedActions(cleaned, json_loads(Strip(cleaned))))

\* lines 320-352: what main dumps for the text of the model's response
Generated(text) == GeneratedFrom(CutFences(Strip(text)))

common_patterns ==
    <<"create a python script", "install package", "list files in", "search for",
      "fix the error", "configure", "update", "what is", "how to", "show me">>

\* s[:n] of a sequence
Front(s, n) == SubSeq(s, 1, IF Len(s) < n THEN Len(s) ELSE n)

\* the patterns that contain the query
RECURSIVE Matching(_, _)
Matching(patterns, query) ==
    IF patterns = <<>> THEN <<>>
    ELSE (IF Contains(Lower(Head(patterns)), Lower(query)) THEN <<Head(patterns)>>
          ELSE <<>>) \o Matching(Tail(patterns), query)

\* lines 188-191: the suggestions of the project type
ProjectSuggestions(project_type) ==
    IF project_type = "python"
    THEN <<"run python script", "install pip package", "create virtual environment">>
    ELSE IF project_type = "nodejs"
    THEN <<"npm install", "run node script", "package.json">>
    ELSE <<>>

\* generate_completions in a directory that lists no file
generate_completions(query, project_type) ==
    IF query = "" THEN Front(common_patterns, 5)
    ELSE Front(Matching(common_patterns, query) \o ProjectSuggestions(project_type), 5)

\* the texts the model answers with
GenResponses ==
    {"[{\"type\": \"text\", \"content\": \"hi\"}]",
     "~~~json\n[{\"type\": \"cmd\", \"command\": \"ls\"}]\n~~~", "~~~\n[]\n~~~", "[]",
     "[1]", "[\"ls\"]", "[{\"type\": \"text\", \"content\": \"a\"}, null]",
     "{\"type\": \"text\", \"content\": \"hi\"}", "{}", "5", "null", "true",
     "\"hello\"", "\"\"", "Sure, run ls.", "  I cannot help.  ", "",
     "[{\"type\": \"file\", \"path\": \"a.py\", \"content\": \"x = 1\\\\n   \\\\ny = 2\"}]",
     "[{\"type\": \"file\", \"path\": \"a.py\", \"content\": \"x = 1\\ny = 2\"}]",
     "[{\"type\": \"file\", \"path\": \"a.txt\", \"content\": 5}]",
     "[{\"type\": \"file\", \"path\": \"A.PY\", \"content\": 5}]",
     "[{\"type\": \"file\", \"path\": null, \"content\": \"x\"}]",
     "[{\"type\": \"file\", \"content\": \"x\"}]",
     "[{\"type\": \"file\", \"path\": \"python\", \"content\": \"a\\\\n \\\\nb\"}]",
     "Here: [{\"type\": \"text\", \"content\": \"hi\"}]", "[{\"type\": \"text\"",
     "[{\"foo\": 1}]"}

\* the runs of the generator: GOOGLE_API_KEY set, google.generativeai
\* installed, the two mode flags, whether generate_content returned, and
\* the argument --query
GenRuns ==
    [credential : BOOLEAN, importable : BOOLEAN, complete_mode : BOOLEAN,
     fix_mode : BOOLEAN, answered : BOOLEAN, query : {"", "install", "zzz"}]

InitGen ==
    /\ pc = "main"
    /\ generator \in GenRuns
    /\ response \in GenResponses
    /\ stdout = <<>>
    /\ scan_path = Null
    /\ snapshot = NoSnapshot
    /\ working_dir = "/home/u"
    /\ cwd = "/home/u"
    /\ files = FilesMath
    /\ dirs = BaseDirs
    /\ initial_dir = ""
    /\ requested = "/home/u"
    /\ home_dir = "/home/u"
    /\ termux_open = TRUE
    /\ procs = <<>>
    /\ plan = <<>>
    /\ idx = 0
    /\ success = 0
    /\ results = <<>>
    /\ tally = NoTally
    /\ parts = NoParts
    /\ parsed = NotParsed
    /\ gcc_command = ""
    /\ gcc_fixed = ""
    /\ api_keys = TRUE
    /\ command_history = <<>>
    /\ anim = NoAnim
    /\ display = <<>>

\* the variables main of ai_backend.py leaves alone
unprinted_vars ==
    <<initial_dir, requested, home_dir, working_dir, cwd, dirs, files, termux_open,
      procs, plan, idx, success, results, tally, response, parts, parsed, gcc_command,
      gcc_fixed, api_keys, command_history, anim, display, scan_path, snapshot,
      generator>>

\* lines 230-233: GOOGLE_API_KEY is not set
NoCredential ==
    /\ pc = "main"
    /\ ~generator.credential
    /\ stdout' = Append(stdout, JsonLine(JList(<<ActionOf("error",
           "GOOGLE_API_KEY not set. Get one from https://makersuite.google.com/app/apikey")>>)))
    /\ pc' = "returned"
    /\ UNCHANGED unprinted_vars

\* lines 235-240: the import of google.generativeai fails
NoLibrary ==
    /\ pc = "main"
    /\ generator.credential /\ ~generator.importable
    /\ stdout' = Append(stdout, JsonLine(JList(<<ActionOf("error",
           "Install: pip install google-generativeai")>>)))
    /\ pc' = "returned"
    /\ UNCHANGED unprinted_vars

\* lines 247-251: completion mode prints one suggestion on each line
Complete ==
    /\ pc = "main"
    /\ generator.credential /\ generator.importable /\ generator.complete_mode
    /\ \E t \in {"general", "python"} :
          stdout' = stdout \o [i \in 1..Len(generate_completions(generator.query, t)) |->
                                 TextLine(generate_completions(generator.query, t)[i])]
    /\ pc' = "returned"
    /\ UNCHANGED unprinted_vars

\* lines 254-268: fix mode prints the stripped answer, or that the
\* analysis failed
FixSuggest ==
    /\ pc = "main"
    /\ generator.credential /\ generator.importable
    /\ ~generator.complete_mode /\ generator.fix_mode
    /\ stdout' = Append(stdout,
                        IF generator.answered THEN TextLine(Strip(response))
                        ELSE TextLine("Error analysis failed: transport"))
    /\ pc' = "returned"
    /\ UNCHANGED unprinted_vars

\* lines 320-352: the main mode dumps the actions, or the error that
\* generate_content raised
Generate ==
    /\ pc = "main"
    /\ generator.credential /\ generator.importable
    /\ ~generator.complete_mode /\ ~generator.fix_mode
    /\ stdout' = Append(stdout,
                        IF generator.answered THEN JsonLine(Generated(response))
                        ELSE JsonLine(JList(<<ActionOf("error", "AI error: transport")>>)))
    /\ pc' = "returned"
    /\ UNCHANGED unprinted_vars

NextGen == NoCredential \/ NoLibrary \/ Complete \/ FixSuggest \/ Generate

SpecGen == InitGen /\ [][NextGen]_vars



(***************************************************************************)
(* Properties.                                                             *)
(***************************************************************************)

\* the steps that succeeded among those executed so far
Succeeded == {i \in 1..Len(results) : results[i].ok}

\* C1: continue-on-failure.  While the loop runs and when it has ended, the
\* steps executed are the steps of the plan so far, in plan order, and
\* success counts those that succeeded; a step that is reported failed
\* leaves the loop running at the next step; and the tally reported at the
\* end is (steps that succeeded)/(steps of the plan).
C1_ContinueOnFailure ==
    /\ [](pc \in {"exec", "done"} =>
            /\ Len(results) = idx - 1
            /\ \A i \in 1..Len(results) : results[i].step = plan[i]
            /\ success = Cardinality(Succeeded))
    /\ [](pc = "done" =>
            /\ Len(results) = Len(plan)
            /\ tally = [reported |-> TRUE, succeeded |-> Cardinality(Succeeded),
                        total |-> Len(plan)])
    /\ [][(pc = "exec" /\ results' # results /\ ~results'[Len(results')].ok)
            => (pc' = "exec" /\ idx' = idx + 1 /\ Len(results') = idx)]_vars

\* C1: a three-step plan whose second step started a process that failed
\* has run its third step and reported 2 of 3
C1_Witness ==
    /\ pc = "done"
    /\ Len(plan) = 3
    /\ results[1].ok
    /\ ~results[2].ok /\ results[2].nprocs = 1
    /\ results[3].ok /\ results[3].nprocs = 1
    /\ tally = [reported |-> TRUE, succeeded |-> 2, total |-> 3]

\* C2: when process_request has finished a plan, every step of the plan has
\* produced one outcome and was counted in the tally, malformed steps
\* included.
C2_OneResultPerStep ==
    pc \in {"done", "aborted"} =>
        /\ Len(results) = Len(plan)
        /\ tally = [reported |-> TRUE, succeeded |-> success, total |-> Len(plan)]

\* C2: a plan whose second step is no object has ended after one outcome
\* and without a tally
C2_Aborted ==
    /\ pc = "aborted"
    /\ Len(plan) = 3
    /\ plan[2] = NonObject
    /\ Len(results) = 1
    /\ ~tally.reported

\* the text has a "{" with a "}" somewhere after it
HasSpan(s) ==
    \E i, j \in 1..Len(s) : i < j /\ CharAt(s, i) = "{" /\ CharAt(s, j) = "}"

\* the text from its first "{" to its last "}"
SpanOf(s) ==
    SubSeq(s, CHOOSE i \in 1..Len(s) :
                  CharAt(s, i) = "{" /\ \A k \in 1..(i - 1) : CharAt(s, k) # "{",
              CHOOSE j \in 1..Len(s) :
                  CharAt(s, j) = "}" /\ \A k \in (j + 1)..Len(s) : CharAt(s, k) # "}")

\* the decoded plan p has exactly one step, with these fields and no others
OneStep(p, type, command, description) ==
    /\ p.t = "obj"
    /\ HasKey(p, "steps")
    /\ Lookup(p.items, "steps", JNull).t = "list"
    /\ Len(Lookup(p.items, "steps", JNull).items) = 1
    /\ ToStep(Lookup(p.items, "steps", JNull).items[1]) =
          [isobj |-> TRUE, type |-> Str(type), description |-> Str(description),
           command |-> Str(command), filename |-> Absent, content |-> Absent]

\* the text was parsed and holds no plan object
ParsedNoPlan == pc # "respond" /\ parts.core \notin PlanCores

C4_ExtractsThePlan ==
    (pc # "respond" /\ parts.core \in PlanCores) =>
        parsed = Returned(json_loads(parts.core).v)

\* C4: a plan object after prose with braces was not extracted
C4_Missed ==
    /\ pc # "respond"
    /\ parts = [prefix |-> "use {x} then ", core |-> "{\"steps\": []}", suffix |-> ""]
    /\ OneStep(parsed.plan, "info", "", response)

MkdirCd == Cmd("mkdir -p A && cd A")

\* the step at idx has just been executed and returned
Returns(step) ==
    /\ pc = "exec"
    /\ idx <= Len(plan)
    /\ plan[idx] = step
    /\ results' # results

\* directory "A" under the working directory
UnderWd(name) == IF working_dir = "/" THEN "/" \o name ELSE working_dir \o "/" \o name

\* A cannot be created: a regular file has its path, or it does not exist
\* and the working directory cannot be written to
Blocked(t) == t \in DOMAIN files \/ (t \notin dirs /\ working_dir \in ReadOnlyDirs)

\* C5: when the step "mkdir -p A && cd A" returns from working directory W,
\* a success leaves working_dir at W/A with A an existing directory; when A
\* cannot be created the step is reported failed and working_dir is still W.
C5_MkdirThenCd ==
    [][Returns(MkdirCd) =>
          /\ results'[idx].ok =>
                (working_dir' = UnderWd("A") /\ UnderWd("A") \in dirs' /\ cwd' = working_dir')
          /\ Blocked(UnderWd("A")) =>
                (~results'[idx].ok /\ working_dir' = working_dir /\ dirs' = dirs)]_vars

\* C5: the step succeeded from /home/u and later failed in a directory that
\* cannot be written to
C5_Witness ==
    /\ Len(results) = 3
    /\ results[1].step = MkdirCd /\ results[1].ok
    /\ results[3].step = MkdirCd /\ ~results[3].ok
    /\ "/home/u/A" \in dirs
    /\ working_dir = "/home/u/ro"

\* d is root r or lies below it
UnderRoot(d, r) == d = r \/ StartsWith(d, r \o "/")

Disallowed == {"/system", "/proc", "/dev", "/sys", "/root"}

UnderDisallowed(d) == \E r \in Disallowed : UnderRoot(d, r)

\* no step has been executed yet
BeforeFirstStep == pc \in {"idle", "noplan"} \/ (pc = "exec" /\ idx = 1 /\ results = <<>>)

\* C6: a session whose directory at construction is under a disallowed
\* root has the home directory as working_dir before the first step.
C6_RedirectAtStart ==
    (BeforeFirstStep /\ UnderDisallowed(requested)) =>
        (working_dir = home_dir /\ cwd = home_dir)

\* C6: a session started in /proc/1 is about to run its first step in the
\* home directory
C6_Witness ==
    /\ pc = "exec"
    /\ idx = 1
    /\ requested = "/proc/1"
    /\ working_dir = "/home/u"

\* C7: after construction working_dir is never under a disallowed root.
C7_NeverUnderDisallowed == pc # "init" => ~UnderDisallowed(working_dir)

\* C7: a cd step into /proc succeeded and left working_dir there
C7_Escaped ==
    /\ Len(results) = 1
    /\ results[1].step = Cmd("cd /proc")
    /\ results[1].ok
    /\ working_dir = "/proc"

ClaimedSymbols == {"sqrt(", "sin(", "cos(", "pow(", "#include <math.h>"}

\* the source foo.c in the working directory uses a math symbol
SourceUsesMath ==
    \E m \in ClaimedSymbols : Contains(files[UnderWd("foo.c")].content, m)

\* the words of a command without the words -lm
RECURSIVE WithoutLm(_)
WithoutLm(words) ==
    IF words = <<>> THEN <<>>
    ELSE IF Head(words) = "-lm" THEN WithoutLm(Tail(words))
    ELSE <<Head(words)>> \o WithoutLm(Tail(words))

Compile == Cmd("gcc foo.c -o foo")

Run == Cmd("./foo")

Launches == {<<Run, "foo">>, <<Cmd("python3 run.py"), "run.py">>, <<Cmd("python run.py"), "run.py">>}

\* the compile steps, with the source each names
Compiles == {<<Compile, "foo.c">>, <<Cmd("gcc foo.c -lm -o foo"), "foo.c">>}

\* a step naming a target that is missing is reported failed and starts no
\* process
FailsUnstarted(steps) ==
    \A s \in steps :
        (Returns(s[1]) /\ UnderWd(s[2]) \notin DOMAIN files \cup dirs) =>
            (~results'[idx].ok /\ procs' = procs)

\* a ./foo step whose target exists starts its process with the file
\* executable
RunsExecutable ==
    (Returns(Run) /\ UnderWd("foo") \in DOMAIN files) =>
        (Len(procs') = Len(procs) + 1 /\ procs'[Len(procs')].runnable)

\* C10 as amended: a step that runs ./name, or a python or python3 script
\* given as the first argument, is reported failed without a process when
\* the file is missing, and ./name whose file exists is made executable
\* before its process starts.  A gcc step is not validated: its process is
\* started also when the source is missing, and the step is reported failed
\* by the way that process ends.
C10_ValidatedLaunches ==
    [][/\ FailsUnstarted(Launches)
       /\ RunsExecutable
       /\ \A s \in Compiles :
             (Returns(s[1]) /\ UnderWd(s[2]) \notin DOMAIN files \cup dirs) =>
                 (~results'[idx].ok /\ Len(procs') = Len(procs) + 1)]_vars

\* C10: in a directory without foo.c and foo, the compile step started a
\* process and failed, and the run step failed without one
C10_Witness ==
    /\ Len(results) = 3
    /\ results[1].step = MkdirCd /\ results[1].ok
    /\ results[2].step = Compile /\ ~results[2].ok /\ results[2].nprocs = 1
    /\ results[3].step = Run /\ ~results[3].ok /\ results[3].nprocs = 0
    /\ DOMAIN files = {"/home/u/foo.c", "/home/u/run.py"}

\* C10 as stated: every step that runs ./name, a python script or a gcc
\* compile is reported failed without a process when its target is
\* missing, and ./name whose file exists is made executable first.
C10_ValidatedBeforeExecution ==
    [][FailsUnstarted(Launches \cup Compiles) /\ RunsExecutable]_vars

(***************************************************************************)
(* C11: the GUI-open rewrite.                                              *)
(***************************************************************************)

\* a step that opens f.html with the opener g
Opens(g) == Cmd(g \o " f.html")

\* the last process started
LastProc(ps) == ps[Len(ps)]

\* C11: a command that invokes xdg-open, open or start is, when termux-open
\* is available, run as one process whose command invokes termux-open once
\* with the same arguments; when termux-open is not available the step
\* fails with a message naming termux-tools and no process is started.
C11_OpensOnce ==
    [][\A g \in SeqToSet(gui_commands) :
          Returns(Opens(g)) =>
             IF termux_open
             THEN /\ Len(procs') = Len(procs) + 1
                  /\ LastProc(procs').cmd = "termux-open f.html"
             ELSE /\ procs' = procs
                  /\ ~LastProc(results').ok
                  /\ Contains(LastProc(results').shown_err, "termux-tools")]_vars

\* the rewrite of xdg-open is rewritten again: open is found inside termux-open
C11_Doubled ==
    \E i \in 1..Len(procs) : procs[i].cmd = "termux-termux-open f.html"

\* what holds of the rewrite: open and start are rewritten once, and without
\* the opener none of the three starts a process
C11_OpenAndStart ==
    [][\A g \in SeqToSet(gui_commands) :
          Returns(Opens(g)) =>
             IF termux_open
             THEN /\ Len(procs') = Len(procs) + 1
                  /\ LastProc(procs').cmd =
                        (IF g = "xdg-open" THEN "termux-termux-open f.html"
                         ELSE "termux-open f.html")
             ELSE /\ procs' = procs
                  /\ ~LastProc(results').ok
                  /\ Contains(LastProc(results').shown_err, "termux-tools")]_vars

(***************************************************************************)
(* C12: timeout and interrupt of an interactive program.                   *)
(***************************************************************************)

\* a step whose command has an interactive marker and needs no file
Game == Cmd("sh ./game")

\* the step at idx started one process, in the given mode, which ended in
\* the way kind
EndedBy(mode, kind) ==
    /\ pc = "exec" /\ idx <= Len(plan)
    /\ Len(procs') = Len(procs) + 1
    /\ LastProc(procs').mode = mode
    /\ LastProc(procs').o.kind = kind

\* the step at idx returned ok with this text as its output, and the loop
\* is at the next step
StoppedWith(text) ==
    /\ pc' = "exec" /\ idx' = idx + 1
    /\ success' = success + 1
    /\ Len(results') = Len(results) + 1
    /\ LastProc(results').ok
    /\ LastProc(results').shown_out = text
    /\ LastProc(results').shown_err = ""

\* C12: an interactive-mode command that exceeds its 60 seconds gives
\* status 0, the step counts as succeeded and its message says it was
\* stopped after 60 seconds; an interrupt during an interactive-mode command
\* is reported as a stop by the user, the step counts as succeeded, and the
\* loop goes on with the remaining steps.
C12_GracefulStop ==
    [][/\ EndedBy("interactive", "timeout") =>
             StoppedWith("Animation stopped after 60 seconds")
       /\ EndedBy("interactive", "interrupt") =>
             StoppedWith("Program interrupted by user")]_vars

\* C12: the game was interrupted, the step counted, and the next step ran
C12_Witness ==
    /\ pc = "done" /\ tally.succeeded = 2 /\ tally.total = 2
    /\ Len(results) = 2 /\ Len(procs) = 2
    /\ results[1].step = Game /\ results[1].shown_out = "Program interrupted by user"
    /\ procs[1].mode = "interactive" /\ procs[1].o.kind = "interrupt"
    /\ results[2].step = Cmd("ls") /\ results[2].ok

\* C12: the game was stopped after its time bound and the step counted
C12_TimedOut ==
    /\ Len(results) = 1 /\ results[1].step = Game /\ results[1].ok
    /\ results[1].shown_out = "Animation stopped after 60 seconds"
    /\ procs[1].mode = "interactive" /\ procs[1].o.kind = "timeout"

(***************************************************************************)
(* C13: a non-zero exit in captured mode.                                  *)
(***************************************************************************)

\* the last process the step at idx started ran in captured mode and
\* exited with a status other than 0
ExitedNonZero ==
    /\ pc = "exec" /\ idx <= Len(plan)
    /\ Len(procs') > Len(procs)
    /\ LastProc(procs').mode = "captured"
    /\ LastProc(procs').o.kind = "exit"
    /\ LastProc(procs').o.rc # 0

\* C13: a captured-mode command that ends with a non-zero exit status gives
\* a failed step outcome that carries the stderr of the process; the
\* outcome is returned as a value, so the loop is at the next step and
\* nothing was raised.
C13_FailedWithStderr ==
    [][ExitedNonZero =>
          /\ pc' = "exec" /\ idx' = idx + 1 /\ success' = success
          /\ Len(results') = Len(results) + 1
          /\ ~LastProc(results').ok
          /\ LastProc(results').shown_err = LastProc(procs').o.err
          /\ LastProc(results').shown_err # ""]_vars

\* C13: ls exited with status 1, the step failed with the stderr of ls, and
\* the step after it ran
C13_Witness ==
    /\ Len(results) = 2 /\ Len(procs) = 2
    /\ results[1].step = Cmd("ls") /\ ~results[1].ok
    /\ procs[1].mode = "captured" /\ procs[1].o = ExitFail
    /\ results[1].shown_err = ExitFail.err
    /\ results[2].step = Cmd("ls") /\ results[2].ok

(***************************************************************************)
(* C14: the exit status of an invocation.                                  *)
(***************************************************************************)

\* C14: the exit status is 0 when the plan loop completed, whatever number
\* of steps failed, 130 after a user interrupt, and not 0 when no plan
\* could be asked for because no model credentials are configured.
C14_ExitStatus ==
    /\ pc = "done" => exit_status = 0
    /\ pc = "interrupted" => exit_status = 130
    /\ (pc = "noplan" /\ ~api_keys) => exit_status # 0

\* the invocation without credentials is over and its exit status is 0
C14_NoKeysExitZero == pc = "noplan" /\ ~api_keys /\ exit_status = 0

\* what holds of the exit status: 0 after the loop, also when every step
\* failed, and 130 after an interrupt
C14_CompletedOrInterrupted ==
    /\ pc = "done" => exit_status = 0
    /\ pc = "interrupted" => exit_status = 130

(***************************************************************************)
(* C15: forwarding to the history store.                                   *)
(***************************************************************************)

\* the rows the store holds when each of these step results was forwarded
\* to it in order
RECURSIVE Forwarded(_)
Forwarded(rs) ==
    IF rs = <<>> THEN <<>>
    ELSE remember_command(Forwarded(SubSeq(rs, 1, Len(rs) - 1)),
                          LastProc(rs).step.command, LastProc(rs).ok,
                          LastProc(rs).shown_out)

\* C15: for every step the engine executed, one (command, success, output)
\* record was appended to the history store: after N executed steps the
\* store holds N more records than before, in execution order.
C15_HistoryForwarded == command_history = Forwarded(results)

\* a plan of three steps was executed to its end and the store is as it was
C15_NothingForwarded ==
    pc = "done" /\ Len(results) = 3 /\ Len(procs) > 0 /\ command_history = <<>>

(***************************************************************************)
(* C16: exceptions at the step boundary.                                   *)
(***************************************************************************)

\* the loop called execute_step on the step at idx and the user did not
\* interrupt it
StepCalled == pc = "exec" /\ idx <= Len(plan) /\ pc' # "interrupted"

\* C16: for every step value of a decoded plan (any type tag, missing or
\* empty fields, a step that is no object, a command that is no string)
\* execute_step returns a success or failure outcome to the loop: no
\* exception reaches the plan loop.
C16_NeverRaises ==
    [][StepCalled => (pc' = "exec" /\ Len(results') = Len(results) + 1)]_vars

\* execute_step raised on a step whose command is a list: the loop was left
\* at that step, after the one outcome of the step before it
C16_Raised ==
    /\ pc = "aborted"
    /\ idx = 2 /\ plan[idx] = ListCommand
    /\ Len(results) = 1 /\ results[1].ok

\* what holds at the step boundary: a step that is an object and whose
\* command is absent, empty or a string returns an outcome
C16_WellTypedReturns ==
    [][(StepCalled /\ plan[idx].isobj /\ plan[idx].command # NonStr) =>
          (pc' = "exec" /\ Len(results') = Len(results) + 1)]_vars

(***************************************************************************)
(* C17: the animation thread and the reports of the main thread.           *)
(***************************************************************************)

\* process_request has moved on past the animation phase
PastAnimation == pc \notin {"request", "sleeping"}

\* the main thread wrote at position i after the animation phase
MainReport(i) == display[i].by = "main" /\ display[i].text # "Processing"

\* C17: the animation thread has ended when process_request moves on past
\* the animation phase, and it writes nothing to the display after
\* anything the main thread printed past that phase.
C17_StoppedBeforeReports ==
    /\ PastAnimation => anim.ended
    /\ \A i, j \in 1..Len(display) :
          (i < j /\ MainReport(i)) => display[j].by # "animate"

\* the animation thread wrote its last line after the loop was announced
\* and a step of the plan was executed
C17_WroteAfterStep ==
    /\ Len(results) > 0
    /\ LastProc(display) = Shown("animate", "Analysis complete!")
    /\ \E i \in 1..Len(display) : display[i] = Shown("main", "Executing steps")

(***************************************************************************)
(* C18: the request completes and reports.                                 *)
(***************************************************************************)

\* process_request is over for a request whose plan was obtained and which
\* the user did not interrupt
Completed == pc \in {"done", "aborted"}

\* C18: once a plan has been obtained, process_request is over only after
\* it printed the tally succeeded/total of the plan, whether every step
\* failed or a step was malformed.
C18_CompletesAndReports ==
    Completed => (tally.reported /\ tally.total = Len(plan))

\* the request is over without a tally: the only step of the plan made
\* execute_step raise
C18_EndedWithoutTally ==
    pc = "aborted" /\ plan = <<ListCommand>> /\ results = <<>> /\ ~tally.reported

\* what holds of completion: a plan whose steps all returned is reported,
\* also when every step failed
C18_ReportsWhenStepsReturn ==
    pc = "done" =>
        /\ tally = [reported |-> TRUE, succeeded |-> success, total |-> Len(plan)]
        /\ Len(results) = Len(plan)

\* the loop goes forward: an iteration ends the loop or moves to the next
\* step, so a plan of n steps is over after at most n iterations
C18_LoopAdvances ==
    [][pc = "exec" => (pc' # "exec" \/ idx' = idx + 1)]_vars

\* every step of a plan of three failed and the tally 0/3 was printed
C18_AllFailedReported ==
    /\ pc = "done" /\ Len(plan) = 3
    /\ \A i \in 1..3 : ~results[i].ok
    /\ tally = [reported |-> TRUE, succeeded |-> 0, total |-> 3]

(***************************************************************************)
(* C19: the shape of what parse_response returns.                          *)
(***************************************************************************)

\* the Plan schema: an object with a list steps of step objects
ListOfObjects(v) == v.t = "list" /\ \A i \in 1..Len(v.items) : v.items[i].t = "obj"

Conforms(v) == HasKey(v, "steps") /\ ListOfObjects(Lookup(v.items, "steps", JNull))

\* the text decoded to a value that is no plan
WrongShape(d) == d.ok /\ ~Conforms(d.v)

\* parse_response was called on the response
WasParsed == pc # "respond"

\* C19: for every input text parse_response returns a value that conforms
\* to the Plan schema, an object with a list steps of step objects; a
\* decoded value of another shape is replaced by the one-step info plan
\* that wraps the raw text.
C19_ParserConforms ==
    WasParsed =>
        /\ ~parsed.raised
        /\ Conforms(parsed.plan)
        /\ (HasSpan(Strip(response)) /\ WrongShape(json_loads(SpanOf(Strip(response)))))
              => parsed.plan = InfoPlan(response)

\* an object without steps was returned as the plan and nothing was executed
C19_WrongShapeReturned ==
    /\ pc = "nosteps"
    /\ parsed.plan = JObj(<<[k |-> "foo", v |-> JNum("1")]>>)
    /\ ~Conforms(parsed.plan)

\* a plan whose steps is the number 5 was returned and the loop raised on it
C19_StepsNoList ==
    /\ pc = "aborted" /\ ~parsed.raised
    /\ Lookup(parsed.plan.items, "steps", JNull) = JNum("5")

\* what holds of the shape: parse_response never raises, and the plan it
\* builds itself, when the text has no span or the span does not decode,
\* conforms to the schema
C19_BuiltPlansConform ==
    WasParsed =>
        /\ ~parsed.raised
        /\ (~HasSpan(Strip(response)) \/ ~json_loads(SpanOf(Strip(response))).ok)
              => Conforms(parsed.plan)

(***************************************************************************)
(* C20: the executable bit of a created file.                              *)
(***************************************************************************)

\* the file-creation steps that are explored
Creations == {s \in CorePool \cup ExtraPool : s.type = Str("file_create")}

\* the file name without its directory part
BaseName(name) == Slice(name, RFind(name, "/") + 1, Len(name))

\* a script or executable by its name: extension .sh, or no extension
IsScript(name) == EndsWith(BaseName(name), ".sh") \/ ~Contains(BaseName(name), ".")

\* the path a file-creation step writes to
Target(s) == normpath(join(working_dir, s.filename.s))

\* the file-creation step s at idx returned True
Created(s) == Returns(s) /\ LastProc(results').ok

\* C20: a file created by a file-creation step has the executable bit
\* exactly when its name has the extension .sh or no extension, also when
\* the name is given with a directory part such as ./run.
C20_ExecutableBit ==
    [][\A s \in Creations :
          Created(s) => (files'[Target(s)].x <=> IsScript(s.filename.s))]_vars

\* the step that creates ./run returned True and the file run is not
\* executable
C20_RunNotExecutable ==
    /\ Len(results) = 1
    /\ results[1].step = FileCreate(Str("./run"), Str("#!/bin/sh")) /\ results[1].ok
    /\ "/home/u/run" \in DOMAIN files
    /\ ~files["/home/u/run"].x

\* what holds of the bit: it is set exactly when the name as it was given
\* ends with .sh or .py or has no dot anywhere
C20_BitAsCoded ==
    [][\A s \in Creations :
          Created(s) =>
             (files'[Target(s)].x <=>
                 (\/ EndsWith(s.filename.s, ".sh") \/ EndsWith(s.filename.s, ".py")
                  \/ ~Contains(s.filename.s, ".")))]_vars

(***************************************************************************)
(* C21: the two phases of a heredoc.                                       *)
(***************************************************************************)

\* the step that opens a heredoc on foo.c, and the step that supplies the text
Heredoc == Cmd("cat > foo.c << EOF")

Supply == FileCreate(Str("foo.c"), Str("double p = pow(x, 2);"))

\* C21: the step "cat > F << EOF", when F can be opened for writing in
\* working_dir, leaves F there as an empty file, is reported succeeded and
\* starts no process; a file-creation step for the same F with content C
\* that returns True leaves F with exactly the content C.
C21_PlaceholderThenContent ==
    [][/\ (Returns(Heredoc) /\ CanOpenForWrite(World, UnderWd("foo.c"))) =>
             /\ LastProc(results').ok
             /\ procs' = procs
             /\ UnderWd("foo.c") \in DOMAIN files'
             /\ files'[UnderWd("foo.c")].content = ""
             /\ working_dir' = working_dir
       /\ (Returns(Supply) /\ CanOpenForWrite(World, UnderWd("foo.c"))) =>
             /\ LastProc(results').ok
             /\ files'[UnderWd("foo.c")].content = Supply.content.s]_vars

\* C21: the heredoc step left the placeholder and the file-creation step
\* after it filled it, both succeeded and no process was started
C21_Witness ==
    /\ Len(results) = 2 /\ procs = <<>>
    /\ results[1].step = Heredoc /\ results[1].ok
    /\ results[2].step = Supply /\ results[2].ok
    /\ files[UnderWd("foo.c")].content = Supply.content.s

\* C21: the placeholder alone: the text foo.c had is gone
C21_Placeholder ==
    /\ Len(results) = 1 /\ results[1].step = Heredoc /\ results[1].ok
    /\ procs = <<>> /\ files["/home/u/foo.c"].content = ""

(***************************************************************************)
(* C22: a cd that fails.                                                   *)
(***************************************************************************)

\* the path cannot be changed to: it does not exist, is no directory, or
\* cannot be entered
NoEntry(t) == t \notin dirs \/ t \in NoEnterDirs

\* steps whose only cd names this directory: a bare cd, and a chain whose
\* cd comes after a mkdir
SingleCds ==
    {<<Cmd("cd nowhere"), "nowhere">>, <<Cmd("cd foo.c"), "foo.c">>,
     <<Cmd("cd locked"), "locked">>,
     <<Cmd("mkdir -p B && cd nowhere && ls"), "nowhere">>}

\* a chain of two cds of which the second fails
TwoCds == Cmd("cd p && cd nowhere")

\* a step whose only cd fails is reported failed and leaves working_dir
\* and the current directory of the process as they were
FailedCdKeeps ==
    \A s \in SingleCds :
        (Returns(s[1]) /\ NoEntry(UnderWd(s[2]))) =>
            /\ ~LastProc(results').ok
            /\ working_dir' = working_dir /\ cwd' = cwd
            /\ procs' = procs

\* C22 as amended: a cd that fails changes nothing itself: a step whose
\* only cd fails is reported failed with working_dir and the current
\* directory as before the step, and a chain whose second cd fails is
\* reported failed with working_dir and the current directory where its
\* first cd left them.
C22_FailedCdKeepsContext ==
    [][/\ FailedCdKeeps
       /\ (Returns(TwoCds) /\ ~NoEntry(UnderWd("p")) /\ NoEntry(UnderWd("p/nowhere"))) =>
             /\ ~LastProc(results').ok
             /\ working_dir' = UnderWd("p") /\ cwd' = UnderWd("p")]_vars

\* C22: cd nowhere failed in /home/u/p and the next step ran there
C22_Witness ==
    /\ Len(results) = 2 /\ Len(procs) = 1
    /\ results[1].step = Cmd("cd nowhere") /\ ~results[1].ok
    /\ results[2].step = Cmd("ls") /\ procs[1].cwd = "/home/u/p"
    /\ working_dir = "/home/u/p" /\ cwd = "/home/u/p"

\* C22: every step in which a cd fails is reported failed and leaves
\* working_dir and the current directory as they were before the step.
C22_FailedCdSameAsBefore ==
    [][/\ FailedCdKeeps
       /\ (Returns(TwoCds) /\ NoEntry(UnderWd("p/nowhere"))) =>
             /\ ~LastProc(results').ok
             /\ working_dir' = working_dir /\ cwd' = cwd]_vars

(***************************************************************************)
(* C23: a chain fails at its first failing segment, without rollback.      *)
(***************************************************************************)

\* mkdir succeeds, cd fails, ls is never reached
MkdirThenBadCd == Cmd("mkdir -p B && cd nowhere && ls")

\* mkdir and cd succeed, and ls is run in the new directory
MkdirCdLs == Cmd("mkdir -p A && cd A && ls")

\* the last process was started by the step at idx and exited with a
\* status other than 0
LastFailed ==
    /\ Len(procs') = Len(procs) + 1
    /\ LastProc(procs').o.kind = "exit" /\ LastProc(procs').o.rc # 0

\* C23: the segments of a chain are processed left to right; at the first
\* failing segment the step is reported failed and no later segment is
\* processed, and what the earlier segments did stays: the directory made
\* by mkdir exists, and working_dir is where an earlier cd left it.
C23_FailFastNoRollback ==
    [][/\ (Returns(MkdirThenBadCd) /\ ~Blocked(UnderWd("B"))) =>
             /\ ~LastProc(results').ok
             /\ UnderWd("B") \in dirs'
             /\ procs' = procs
             /\ working_dir' = working_dir
       /\ (Returns(MkdirCdLs) /\ ~Blocked(UnderWd("A")) /\ LastFailed) =>
             /\ ~LastProc(results').ok
             /\ UnderWd("A") \in dirs'
             /\ working_dir' = UnderWd("A") /\ cwd' = UnderWd("A")
             /\ LastProc(procs').cwd = UnderWd("A")
       /\ (Returns(MkdirCdLs) /\ Blocked(UnderWd("A"))) =>
             /\ ~LastProc(results').ok
             /\ procs' = procs /\ working_dir' = working_dir /\ dirs' = dirs
       /\ (Returns(TwoCds) /\ ~NoEntry(UnderWd("p"))) =>
             /\ ~LastProc(results').ok
             /\ working_dir' = UnderWd("p")]_vars

\* C23: ls failed in the directory the chain had made and entered; the step
\* is failed and the session is left in that directory
C23_Witness ==
    /\ Len(results) = 1 /\ results[1].step = MkdirCdLs /\ ~results[1].ok
    /\ Len(procs) = 1 /\ procs[1].cmd = "ls" /\ procs[1].o = ExitFail
    /\ procs[1].cwd = "/home/u/A"
    /\ working_dir = "/home/u/A" /\ "/home/u/A" \in dirs

\* C23: the cd of the chain failed after its mkdir had made B, and ls was
\* not run
C23_MadeThenFailed ==
    /\ Len(results) = 1 /\ results[1].step = MkdirThenBadCd /\ ~results[1].ok
    /\ procs = <<>> /\ "/home/u/B" \in dirs /\ working_dir = "/home/u"

(***************************************************************************)
(* C24: a chain whose first segment is the cd.                             *)
(***************************************************************************)

CdThenMake == Cmd("cd p && make")

\* C24: a chain whose first segment is a cd is split like every chain:
\* for "cd p && make" with a directory p under working_dir, the cd goes to
\* p and make is run as a process in p.
C24_CdFirstIsSplit ==
    [][(Returns(CdThenMake) /\ ~NoEntry(UnderWd("p"))) =>
          /\ working_dir' = UnderWd("p")
          /\ Len(procs') = Len(procs) + 1
          /\ LastProc(procs').cmd = "make"
          /\ LastProc(procs').cwd = UnderWd("p")]_vars

\* the chain was taken for a cd to the directory "p && make": it failed,
\* make was not run and working_dir is where it was
C24_TakenForOneCd ==
    /\ Len(results) = 1 /\ results[1].step = CdThenMake /\ ~results[1].ok
    /\ results[1].shown_err = "Failed to change to directory p && make"
    /\ procs = <<>> /\ working_dir = "/home/u" /\ "/home/u/p" \in dirs

\* what holds of the split: a chain that has a cd after its first segment
\* is split and its segments are classified one by one
C24_LaterCdIsSplit ==
    [][(Returns(MkdirCdLs) /\ ~Blocked(UnderWd("A"))) =>
          /\ UnderWd("A") \in dirs'
          /\ working_dir' = UnderWd("A")
          /\ Len(procs') = Len(procs) + 1
          /\ LastProc(procs').cmd = "ls" /\ LastProc(procs').cwd = UnderWd("A")]_vars

(***************************************************************************)
(* C25: who changes working_dir.                                           *)
(***************************************************************************)

\* the step is dispatched to handle_directory_operations: its command is a
\* cd, or a chain with a cd
IsCdStep(s) ==
    /\ s.isobj /\ s.type # Str("file_create") /\ s.type # Str("info")
    /\ s.command.tag = "str"
    /\ (Contains(s.command.s, " && cd ") \/ StartsWith(s.command.s, "cd "))

\* the processes the step at idx started
Started == (Len(procs) + 1)..Len(procs')

\* the loop is at a step
AtStep == pc = "exec" /\ idx <= Len(plan)

\* C25 as amended: after initialization working_dir changes only while a
\* cd or mkdir-and-cd step is dispatched; every other step leaves
\* working_dir and the current directory of the process as they were and
\* each process it starts runs in that working_dir; a process started by a
\* chain runs in the working_dir the chain has reached when it starts it,
\* the one before the step or the one its cd segments moved to.
C25_SingleWriter ==
    [][AtStep =>
          /\ ~IsCdStep(plan[idx]) =>
                /\ working_dir' = working_dir /\ cwd' = cwd
                /\ \A i \in Started : procs'[i].cwd = working_dir
          /\ IsCdStep(plan[idx]) =>
                \A i \in Started : procs'[i].cwd \in {working_dir, working_dir'}
          /\ working_dir' = cwd']_vars

\* C25: a file was created and a command run in /home/u/p, where the
\* session started, and working_dir is still /home/u/p
C25_Witness ==
    /\ Len(results) = 2 /\ Len(procs) = 1
    /\ results[1].step = Supply /\ results[1].ok
    /\ results[2].step = Cmd("ls") /\ procs[1].cwd = "/home/u/p"
    /\ "/home/u/p/foo.c" \in DOMAIN files
    /\ working_dir = "/home/u/p"

\* C25: working_dir changes only while a cd or mkdir-and-cd step is
\* dispatched, and each process started by a step runs in the working_dir
\* left by the steps before it.
C25_ProcessesWhereStepsLeftIt ==
    [][AtStep =>
          /\ (working_dir' # working_dir => IsCdStep(plan[idx]))
          /\ \A i \in Started : procs'[i].cwd = working_dir]_vars

(***************************************************************************)
(* C26: the time bound of a process.                                       *)
(***************************************************************************)

\* a command with a heredoc that is no "cat >": it is run as a process
TeeHeredoc == Cmd("tee x << EOF")

\* the last process the step at idx started reached its time bound
TimeBoundReached ==
    /\ AtStep
    /\ Len(procs') > Len(procs)
    /\ LastProc(procs').o.kind = "timeout"

\* C26: when a process started by a step (a captured command, an
\* interactive command, another segment of a directory chain, a heredoc
\* command that is no "cat >") reaches its time bound, the step ends with
\* an outcome and the loop goes on: a failed one with a message in captured
\* mode, a succeeded one in interactive mode; no exception leaves the step.
C26_TimeoutIsOutcome ==
    [][TimeBoundReached =>
          /\ pc' = "exec" /\ idx' = idx + 1
          /\ Len(results') = Len(results) + 1
          /\ LastProc(procs').mode = "captured" =>
                (~LastProc(results').ok /\ LastProc(results').shown_err # "")
          /\ LastProc(procs').mode = "interactive" => LastProc(results').ok]_vars

\* C26: the heredoc command reached its time bound, its step failed with
\* the message of the handler, and the step after it ran
C26_Witness ==
    /\ Len(results) = 2 /\ Len(procs) = 2
    /\ results[1].step = TeeHeredoc /\ ~results[1].ok
    /\ procs[1].o = TimedOut /\ results[1].shown_err = "Heredoc creation error"
    /\ results[2].step = Cmd("ls") /\ results[2].ok

\* C26: ls reached its time bound as a segment of a chain and as a command
C26_ChainAndCommand ==
    /\ Len(results) = 2 /\ Len(procs) = 2
    /\ results[1].step = Cmd("ls") /\ ~results[1].ok /\ procs[1].o = TimedOut
    /\ results[1].shown_err = "Command timed out after 5 minutes"
    /\ results[2].step = MkdirCdLs /\ ~results[2].ok /\ procs[2].o = TimedOut
    /\ results[2].shown_err = "Directory operation error"

(***************************************************************************)
(* C27: the snapshot of a directory that cannot be listed.                 *)
(***************************************************************************)

\* the directory scan_directory was asked about
Scanned == IF scan_path = Null THEN Str(working_dir) ELSE scan_path

\* the directory cannot be listed: it is gone, it is no directory, it may
\* not be read, or the argument is no path
Unlistable ==
    Scanned.tag # "str" \/ Scanned.s \notin dirs \/ Scanned.s \in UnreadableDirs

\* the fields of a listing
ListingFields ==
    {"files", "dirs", "code_files", "package_files", "executables", "python_files",
     "total_files"}

\* C27: for every argument scan_directory returns a value; when the
\* directory cannot be listed the value has the field error and the
\* directory asked about and none of the fields of a listing, and when it
\* can be listed the value has no field error.
C27_SnapshotOrError ==
    pc = "scanned" =>
        /\ snapshot # NoSnapshot
        /\ snapshot.current_dir = Scanned
        /\ Unlistable =>
              /\ "error" \in DOMAIN snapshot
              /\ DOMAIN snapshot \cap ListingFields = {}
        /\ ~Unlistable =>
              /\ "error" \notin DOMAIN snapshot
              /\ ListingFields \subseteq DOMAIN snapshot

\* C27: the directory vanished before it was listed and the value returned
\* is the error value
C27_Witness ==
    /\ pc = "scanned" /\ scan_path = Str("/home/u/p") /\ "/home/u/p" \notin dirs
    /\ snapshot = [error |-> "OSError", current_dir |-> Str("/home/u/p")]

\* C27: the listing of the project: hidden names are left out
C27_Listed ==
    /\ pc = "scanned" /\ scan_path = Null /\ working_dir = "/home/u"
    /\ "error" \notin DOMAIN snapshot
    /\ snapshot.files = {"foo.c", "run.py", "foo", "Makefile"}
    /\ snapshot.executables = {"foo"} /\ snapshot.dirs = {"p", "ro", "locked"}
    /\ snapshot.is_git /\ snapshot.total_files = 4

(***************************************************************************)
(* C28: commands that only contain the name of a GUI opener.               *)
(***************************************************************************)

\* commands whose program is no opener but whose text contains "open"
NamesAnOpener == {"cat open_ports.txt", "openssl version"}

\* C28: a command whose program is not xdg-open, open or start is run as
\* one process with its text unchanged, and is not failed with the message
\* about the missing helper, whether or not termux-open is available.
C28_OnlyOpenersRewritten ==
    [][\A c \in NamesAnOpener :
          Returns(Cmd(c)) =>
             /\ Len(procs') = Len(procs) + 1
             /\ LastProc(procs').cmd = c
             /\ ~Contains(LastProc(results').shown_err, "termux-tools")]_vars

\* with termux-open the file name was rewritten, and without it openssl
\* was refused for the missing helper
C28_Rewritten ==
    \/ /\ termux_open /\ Len(procs) = 1
       /\ plan[1] = Cmd("cat open_ports.txt")
       /\ procs[1].cmd = "cat termux-open_ports.txt"
    \/ /\ ~termux_open /\ procs = <<>> /\ Len(results) = 1
       /\ results[1].step = Cmd("openssl version") /\ ~results[1].ok
       /\ results[1].shown_err = "Install termux-tools: pkg install termux-tools"

\* both failures, each on its own
C28_FileNameRewritten ==
    /\ termux_open /\ Len(procs) = 1 /\ plan[1] = Cmd("cat open_ports.txt")
    /\ procs[1].cmd = "cat termux-open_ports.txt"

C28_RefusedWithoutHelper ==
    /\ ~termux_open /\ procs = <<>> /\ Len(results) = 1
    /\ results[1].step = Cmd("openssl version") /\ ~results[1].ok
    /\ results[1].shown_err = "Install termux-tools: pkg install termux-tools"

\* what holds of the loop: a command whose text contains none of the three
\* names is run as it is
C28_NoNameNoRewrite ==
    [][Returns(Cmd("ls")) =>
          /\ Len(procs') = Len(procs) + 1
          /\ LastProc(procs').cmd = "ls"]_vars

(***************************************************************************)
(* C29: the redirection at the start of a session.                         *)
(***************************************************************************)

\* d is one of the disallowed roots or a descendant of one
InsideDisallowed(d) ==
    \E i \in 1..Len(restricted) :
        d = restricted[i] \/ StartsWith(d, restricted[i] \o "/")

\* C29: after __init__, a starting directory that is not inside a
\* disallowed root is working_dir, and working_dir is never inside a
\* disallowed root, whatever the home directory is.
C29_RedirectsOnlyInside ==
    pc = "idle" =>
        /\ ~InsideDisallowed(requested) => working_dir = requested
        /\ ~InsideDisallowed(working_dir)

\* /developer is no descendant of /dev and was left for the home directory
C29_DeveloperLeft ==
    /\ pc = "idle" /\ initial_dir = "/developer" /\ requested = "/developer"
    /\ working_dir = "/home/u"

\* the session was redirected into /root, the home directory of the caller
C29_LandedInRoot ==
    /\ pc = "idle" /\ requested = "/proc/1" /\ home_dir = "/root"
    /\ working_dir = "/root"

\* what holds of the check: a starting directory inside a disallowed root
\* is always left for the home directory, and one whose text does not
\* begin with the name of a disallowed root is kept
C29_PrefixRule ==
    pc = "idle" =>
        /\ InsideDisallowed(requested) => working_dir = home_dir
        /\ ~InRestricted(requested) => working_dir = requested

(***************************************************************************)
(* C30: a file-creation step writes the file or changes nothing.           *)
(***************************************************************************)

\* the loop is at the file-creation step s
AtCreation(s) == pc = "exec" /\ idx <= Len(plan) /\ plan[idx] = s

\* the field is there and is not empty
Given(v) == v.tag \notin {"absent", "null"} /\ v # Str("")

\* C30: a file-creation step returns an outcome to the loop and does not
\* raise; when it succeeds the file working_dir/filename has exactly the
\* content of the step; when it fails no file is created or modified; and
\* it fails when the filename is missing or the content is missing or
\* empty.
C30_WritesOrNothing ==
    [][\A s \in Creations :
          AtCreation(s) =>
             /\ pc' = "exec" /\ Len(results') = Len(results) + 1
             /\ LastProc(results').ok =>
                   /\ Target(s) \in DOMAIN files'
                   /\ files'[Target(s)].content = s.content.s
             /\ ~LastProc(results').ok => (files' = files /\ dirs' = dirs)
             /\ (~Given(s.filename) \/ ~Given(s.content)) => ~LastProc(results').ok]_vars

\* the step whose content is no string failed, and foo.c, which had a
\* content before the step, is empty
C30_FailedAndEmptied ==
    /\ Len(results) = 1 /\ results[1].step = FileCreate(Str("foo.c"), NonStr)
    /\ ~results[1].ok
    /\ working_dir = "/home/u"
    /\ files["/home/u/foo.c"].content = ""

\* what holds of the step: the same statement for the steps whose content
\* is a string or is missing, with a write error among them
C30_StringContent ==
    [][\A s \in {t \in Creations : t.content.tag # "nonstr"} :
          AtCreation(s) =>
             /\ pc' = "exec" /\ Len(results') = Len(results) + 1
             /\ LastProc(results').ok =>
                   /\ Target(s) \in DOMAIN files'
                   /\ files'[Target(s)].content = s.content.s
             /\ ~LastProc(results').ok => (files' = files /\ dirs' = dirs)
             /\ (~Given(s.filename) \/ ~Given(s.content)) => ~LastProc(results').ok]_vars

\* a write error: the step after the cd to the read-only directory failed
\* and the loop went on
C30_WriteErrorReported ==
    /\ Len(results) = 2 /\ working_dir = "/home/u/ro"
    /\ results[2].step = FileCreate(Str("foo.c"), Str("double p = pow(x, 2);"))
    /\ ~results[2].ok /\ "/home/u/ro/foo.c" \notin DOMAIN files

(***************************************************************************)
(* C31: what the action generator prints in main mode.                     *)
(***************************************************************************)

\* main of ai_backend.py returned from a run without --complete-mode and
\* without --fix-mode
MainModeRun == pc = "returned" /\ ~generator.complete_mode /\ ~generator.fix_mode

\* the model was asked and answered
WasAnswered == generator.credential /\ generator.importable /\ generator.answered

\* the text after the cleaning of lines 325-331, as it is given to json.loads
CleanedText == Strip(CutFences(Strip(response)))

\* a JSON array of objects
ArrayOfObjects(v) == v.t = "list" /\ \A i \in 1..Len(v.items) : v.items[i].t = "obj"

\* an array with one action of this type
SingleAction(v, type) ==
    /\ v.t = "list" /\ Len(v.items) = 1 /\ v.items[1].t = "obj"
    /\ Lookup(v.items[1].items, "type", JNull) = JStr(type)

\* a file action with a content
FileAction(a) ==
    a.t = "obj" /\ Lookup(a.items, "type", JNull) = JStr("file") /\ HasKey(a, "content")

PathOf(a) == Lookup(a.items, "path", JStr(""))

\* a file action for a Python file: the last dot-separated part of its
\* path is py or python, in any case
PythonFile(a) ==
    FileAction(a) /\ PathOf(a).t = "str" /\ Lower(LastPart(PathOf(a).s)) \in {"py", "python"}

\* an element the loop of main goes through without an exception
WellFormed(a) ==
    /\ a.t = "obj"
    /\ FileAction(a) => PathOf(a).t = "str"
    /\ PythonFile(a) => Lookup(a.items, "content", JNull).t = "str"

\* the content of a Python file with every line of whitespace emptied, the
\* lines being what a backslash and an n separate
Normalised(content) == Join(FixedLines(SplitOn(content, "\\n")), "\\n")

\* the action as it is printed
PrintedAs(a) ==
    IF PythonFile(a)
    THEN JObj(SetMember(a.items, "content",
                        JStr(Normalised(Lookup(a.items, "content", JNull).s))))
    ELSE a

\* what holds for every run in main mode: one line, a JSON array of objects
OneArray == Len(stdout) = 1 /\ stdout[1].form = "json" /\ ArrayOfObjects(stdout[1].v)

\* the outcomes other than an answer: one error action
ErrorWhenUnanswered == ~WasAnswered => SingleAction(stdout[1].v, "error")

\* text that does not decode: one text action with the cleaned text
TextWhenUndecoded ==
    (WasAnswered /\ ~json_loads(CleanedText).ok) =>
        stdout[1].v = JList(<<ActionOf("text", CleanedText)>>)

\* a decoded value that is no array: one error action
ErrorWhenNoArray ==
    (WasAnswered /\ json_loads(CleanedText).ok /\ json_loads(CleanedText).v.t # "list") =>
        SingleAction(stdout[1].v, "error")

\* the model answered with text that decodes to an array
AnsweredArray ==
    WasAnswered /\ json_loads(CleanedText).ok /\ json_loads(CleanedText).v.t = "list"

\* C31 as it is stated: in main mode the generator prints exactly one JSON
\* array of action objects; a decoded JSON array is printed as it was
\* decoded, text that does not decode becomes one text action with the
\* cleaned text, and every other outcome becomes one error action.
C31_ArrayPassedThrough ==
    MainModeRun =>
        /\ OneArray
        /\ ErrorWhenUnanswered
        /\ TextWhenUndecoded
        /\ ErrorWhenNoArray
        /\ AnsweredArray => stdout[1].v = json_loads(CleanedText).v

\* C31: in main mode the generator prints exactly one JSON array of
\* objects; a decoded array of well-formed elements is printed with the
\* content of its Python file actions normalised and everything else as it
\* was decoded; a decoded array with an element that is not well formed
\* (no object, a file action whose path is no string, a Python file whose
\* content is no string) becomes one error action, as do a decoded value
\* that is no array, a transport error, a missing credential and a missing
\* client library; text that does not decode becomes one text action with
\* the cleaned text.
C31_OneArrayOfActions ==
    MainModeRun =>
        /\ OneArray
        /\ ErrorWhenUnanswered
        /\ TextWhenUndecoded
        /\ ErrorWhenNoArray
        /\ AnsweredArray =>
              IF \A i \in 1..Len(json_loads(CleanedText).v.items) :
                    WellFormed(json_loads(CleanedText).v.items[i])
              THEN stdout[1].v =
                      JList([i \in 1..Len(json_loads(CleanedText).v.items) |->
                                PrintedAs(json_loads(CleanedText).v.items[i])])
              ELSE SingleAction(stdout[1].v, "error")

\* a fenced array of one command action was printed without its fences
C31_Witness ==
    /\ MainModeRun /\ WasAnswered
    /\ response = "~~~json\n[{\"type\": \"cmd\", \"command\": \"ls\"}]\n~~~"
    /\ stdout = <<JsonLine(JList(<<JObj(<<[k |-> "type", v |-> JStr("cmd")],
                                         [k |-> "command", v |-> JStr("ls")]>>)>>))>>

\* the array [1] was not passed through: it became the error action of the
\* exception its element raised
C31_ArrayBecameError ==
    /\ MainModeRun /\ WasAnswered /\ response = "[1]"
    /\ stdout = <<JsonLine(JList(<<ActionOf("error",
                      "AI error: 'int' object has no attribute 'get'")>>))>>

\* the content of a Python file was printed with its line of blanks emptied
C31_ContentNormalised ==
    /\ MainModeRun /\ WasAnswered
    /\ AnsweredArray /\ Len(json_loads(CleanedText).v.items) = 1
    /\ PythonFile(json_loads(CleanedText).v.items[1])
    /\ Len(stdout) = 1 /\ Len(stdout[1].v.items) = 1
    /\ Lookup(json_loads(CleanedText).v.items[1].items, "content", JNull)
          = JStr("x = 1\\n   \\ny = 2")
    /\ Lookup(stdout[1].v.items[1].items, "content", JNull) = JStr("x = 1\\n\\ny = 2")

\* an object that is no array became the error action of an exception, and
\* the empty object the one of the type check
C31_ObjectBecameError ==
    \/ /\ MainModeRun /\ WasAnswered /\ response = "{}"
       /\ stdout = <<JsonLine(JList(<<ActionOf("error", "Invalid response format")>>))>>
    \/ /\ MainModeRun /\ WasAnswered /\ response = "5"
       /\ stdout = <<JsonLine(JList(<<ActionOf("error",
                         "AI error: 'int' object is not iterable")>>))>>

====
